---- MODULE Spec2Model ----
(***************************************************************************)
(* Playback controllers of the waypoint camera system.                     *)
(*                                                                         *)
(* CameraMover (Scripts/waypoint-system/camera-mover.mjs) and              *)
(* CameraWaypointPath (Scripts/camera-waypoint-path.mjs) each build a      *)
(* chain of tweens, start the first one and react to completions.  The     *)
(* tween primitive (Scripts/tween.mjs) is modelled by the state of each     *)
(* tween object.  A tween that completes runs its 'complete' handlers in   *)
(* registration order and then starts its chained successor; the handler   *)
(* that fires 'camera:waypoint' hands control to external listeners, which *)
(* may call back into the controller before the completion goes on.        *)
(***************************************************************************)
EXTENDS Integers, Sequences, FiniteSets, TLC

\* ------------------------------------------------------------------ bounds
MaxSegs == 2
MaxPos == 3
MaxDetached == 1
NumScripts == 2
MaxLen == 4
MaxChain == 3
MaxSubLen == 3
Precision == 3

VARIABLES
    script,      \* which script instance is attached: its class name
    loop,        \* attribute loop
    autoStart,   \* attribute autoStart
    _tweens,     \* this._tweens: the tween objects of the list, in order
    _running,    \* this._running
    _lastPath,   \* this._lastPath (CameraMover)
    waypoints,   \* CameraWaypointPath: waypointPositions.length and waypointPauses
    enabled,     \* CameraWaypointPath: each configured input script: "on", "off", "absent"
    _disabledScripts, \* CameraWaypointPath: this._disabledScripts
    detached,    \* chains dropped from this._tweens that the tween manager
                 \* or a completion in progress still holds
    pc,          \* "idle", or "listener" while 'camera:waypoint' listeners run
    cur,         \* the tween whose completion is in progress
    op,          \* the operation the last step performed: [name, arg]
    fired,       \* the app events the last step fired, in order
    lastApi,     \* the last call made from outside: "none", "start", "stop"
    run,         \* what has been observed of the run in progress
    calc,        \* the last call of a building function: [fn, ...inputs, out]
    flow,        \* the scripts around CameraMover on the same app: the
                 \* WaypointFetcher, the WaypointPathBuilder, the FlowCoordinator
    boot         \* CameraWaypointPath: its data source, how far initialize()
                 \* and the load have got, this._pendingAutoStart

vars == <<script, loop, autoStart, _tweens, _running, _lastPath, waypoints,
          enabled, _disabledScripts, detached, pc, cur, op, fired, lastApi, run,
          calc, flow, boot>>

config == <<script, loop, autoStart>>

\* What only CameraWaypointPath has.
pathVars == <<waypoints, enabled, _disabledScripts>>

\* ----------------------------------------------------------------- helpers
\* An app event: its name and, for 'camera:waypoint', the index it carries.
Ev(name, index) == [name |-> name, index |-> index]

Count(name, s) == Cardinality({i \in DOMAIN s : s[i].name = name})

\* ----------------------------------------------------------------- sources
NoPath == [null |-> TRUE]

\* A segment of a built path: samples is samples.length, endIndex the index
\* of the waypoint the segment ends at.
Segment(n, e) == [samples |-> n, endIndex |-> e]

\* Paths handed to start(): segment lists of length 0..MaxSegs whose i-th
\* segment ends at waypoint i and has 1 sample (unusable) or 2 (usable).
Paths ==
    UNION {
        { [segments |-> [i \in 1..len |-> Segment(f[i], i)]] :
            f \in [1..len -> {1, 2}] } : len \in 0..MaxSegs }

\* Paths as WaypointPathBuilder.buildPath fires them with 'path:ready': every
\* segment it keeps has at least 2 points, hence at least 2 samples.
BuiltPaths == {p \in Paths : \A i \in DOMAIN p.segments : p.segments[i].samples >= 2}

\* Waypoint data handed to startFromWaypoints(): positions.length.
Datas == {[positions |-> n] : n \in 0..MaxPos}

\* ------------------------------------------------------------------ tweens
\* A tween object: st is "pending" (created), "active" (playing),
\* "completed" or "stopped"; index is the waypoint index its first
\* 'complete' handler reports; seq tells whether the sequence-complete
\* handler is registered on it; starts counts its start() calls (up to 2).
\* A tween is chained to the one after it in its chain.
Tween(st, index, seq, starts) ==
    [st |-> st, index |-> index, seq |-> seq, starts |-> starts]

\* tween.stop(): a tween created or playing is cancelled; one that has
\* completed stays completed.
TweenStop(t) ==
    IF t.st \in {"pending", "active"} THEN [t EXCEPT !.st = "stopped"] ELSE t

\* tween.start(): the tween plays from its beginning, whatever it was before.
TweenStart(t) == [t EXCEPT !.st = "active", !.starts = IF @ < 2 THEN @ + 1 ELSE @]

ActiveIn(chain) == {i \in DOMAIN chain : chain[i].st = "active"}

\* Every playing tween: <<0, i>> is this._tweens[i], <<d, i>> detached[d][i].
Active ==
    {<<0, i>> : i \in ActiveIn(_tweens)}
    \cup UNION {{<<d, i>> : i \in ActiveIn(detached[d])} : d \in DOMAIN detached}

NoCur == [chain |-> 0, pos |-> 0]

\* The position in this._tweens of the tween whose listeners are running.
CurPos == IF pc = "listener" /\ cur.chain = 0 THEN cur.pos ELSE 0

\* What stays referenced of a list the controller has dropped: the part from
\* its first tween that still plays or whose completion is in progress.
KeepFrom(list, pos) ==
    LET held == ActiveIn(list) \cup (IF pos > 0 THEN {pos} ELSE {})
    IN IF held = {} THEN <<>>
       ELSE SubSeq(list, CHOOSE i \in held : \A j \in held : i <= j, Len(list))

\* -------------------------------------------------------------- CameraMover
\* stop() that drops the list without stopping its tweens.
StopTweensKeepsPlaying(list) == list

\* stop() lines 207-209: every tween of the list is stopped.
StopTweens(list) == [i \in DOMAIN list |-> TweenStop(list[i])]

\* start() calling stop() with its default argument.
StartCancelRestoreDefault == TRUE

\* The restore argument start() and startFromWaypoints() give to stop().
StartCancelRestore == FALSE

\* stop() lines 213-215
StoppedEvent(restore) == IF restore THEN <<Ev("camera:mover:stopped", 0)>> ELSE <<>>

RECURSIVE TaskIndices(_)
\* start(): the waypoint index of the tween built for each segment with at
\* least 2 samples, in segment order.
TaskIndices(segs) ==
    IF segs = <<>> THEN <<>>
    ELSE (IF Head(segs).samples < 2 THEN <<>> ELSE <<Head(segs).endIndex>>)
         \o TaskIndices(Tail(segs))

\* A hop loop that numbers the hops from 0.
HopIndicesFromZero(n) == [i \in 1..(IF n > 0 THEN n - 1 ELSE 0) |-> i - 1]

\* startFromWaypoints(): one tween per hop i-1 -> i, i = 1..positions.length-1.
HopIndices(n) == [i \in 1..(IF n > 0 THEN n - 1 ELSE 0) |-> i]

\* The state as it is: what a call that returns at its guard leaves.
Same ==
    [tweens |-> _tweens, running |-> _running, detached |-> detached,
     cur |-> cur, fired |-> <<>>]

\* stop(restore)
StopCall(restore) ==
    LET keep == KeepFrom(StopTweens(_tweens), CurPos)
    IN [tweens |-> <<>>,
        running |-> FALSE,
        detached |-> IF keep = <<>> THEN detached ELSE Append(detached, keep),
        cur |-> IF CurPos > 0 THEN [chain |-> Len(detached) + 1, pos |-> 1] ELSE cur,
        fired |-> StoppedEvent(restore)]

\* A chain with the sequence-complete handler on its first tween.
NewChainHookOnFirst(idxs) ==
    [i \in DOMAIN idxs |->
        Tween(IF i = 1 THEN "active" ELSE "pending", idxs[i], i = 1,
              IF i = 1 THEN 1 ELSE 0)]

\* A chain whose tweens are all started at once.
NewChainAllStarted(idxs) ==
    [i \in DOMAIN idxs |-> Tween("active", idxs[i], i = Len(idxs), 1)]

\* start() lines 119-142, startFromWaypoints() lines 171-190: one tween per
\* index; lines 149-155: each chained to the next, the sequence-complete
\* handler on the last, the first started.
NewChain(idxs) ==
    [i \in DOMAIN idxs |->
        Tween(IF i = 1 THEN "active" ELSE "pending", idxs[i], i = Len(idxs),
              IF i = 1 THEN 1 ELSE 0)]

\* start() lines 112-156 and startFromWaypoints() lines 166-203: cancel the
\* old list, build and launch the new one; with no tween, _finish() at once.
Launch(idxs) ==
    LET s == StopCall(StartCancelRestore)
    IN [s EXCEPT !.tweens = NewChain(idxs),
                 !.running = (Len(idxs) > 0),
                 !.fired = @ \o (IF Len(idxs) = 0
                                 THEN <<Ev("camera:path:complete", 0)>> ELSE <<>>)]

\* start(path)
StartCall(path) ==
    IF path = NoPath \/ Len(path.segments) = 0 THEN Same
    ELSE Launch(TaskIndices(path.segments))

\* startFromWaypoints(data)
StartFromWaypointsCall(data) ==
    IF data.positions = 0 THEN Same
    ELSE Launch(HopIndices(data.positions))

\* The indices the tweens of a chain report, in chain order.
Indices(chain) == [i \in DOMAIN chain |-> chain[i].index]

\* A run is followed from a call that launches a chain while nothing else
\* plays, for as long as no other call is made: the indices of the chain it
\* launched, the 'camera:waypoint' indices fired since the chain was last
\* launched and the number of 'camera:path:complete' fired.  NoRun: no such
\* run is in progress.
NoRun == [clean |-> FALSE, idxs |-> <<>>, wp |-> <<>>, done |-> 0]

RunOf(r) ==
    IF pc = "idle" /\ detached = <<>>
    THEN [clean |-> TRUE, idxs |-> Indices(r.tweens), wp |-> <<>>,
          done |-> Count("camera:path:complete", r.fired)]
    ELSE NoRun

Op(name, arg) == [name |-> name, arg |-> arg]

Apply(r) ==
    /\ _tweens' = r.tweens
    /\ _running' = r.running
    /\ detached' = r.detached
    /\ cur' = r.cur
    /\ fired' = r.fired

\* A call from outside is made between frames or from inside a
\* 'camera:waypoint' listener; the number of chains detached at once is
\* bounded.
CanCall(r) ==
    /\ script = "CameraMover"
    /\ Len(r.detached) <= MaxDetached

Start(path) ==
    /\ CanCall(StartCall(path))
    /\ Apply(StartCall(path))
    /\ op' = Op("start", path)
    /\ lastApi' = "start"
    /\ run' = IF StartCall(path) = Same THEN run ELSE RunOf(StartCall(path))
    /\ UNCHANGED <<config, calc, flow, boot, pathVars, _lastPath, pc>>

StartFromWaypoints(data) ==
    /\ CanCall(StartFromWaypointsCall(data))
    /\ Apply(StartFromWaypointsCall(data))
    /\ op' = Op("startFromWaypoints", data)
    /\ lastApi' = "start"
    /\ run' = IF StartFromWaypointsCall(data) = Same THEN run
              ELSE RunOf(StartFromWaypointsCall(data))
    /\ UNCHANGED <<config, calc, flow, boot, pathVars, _lastPath, pc>>

Stop(restore) ==
    /\ CanCall(StopCall(restore))
    /\ Apply(StopCall(restore))
    /\ op' = Op("stop", restore)
    /\ lastApi' = "stop"
    /\ run' = NoRun
    /\ UNCHANGED <<config, calc, flow, boot, pathVars, _lastPath, pc>>

\* _boundOnPath: the 'path:ready' handler
OnPath(path) ==
    /\ script = "CameraMover"
    /\ pc = "idle"
    /\ _lastPath' = path
    /\ IF autoStart
       THEN /\ Apply(StartCall(path))
            /\ lastApi' = "start"
            /\ run' = IF StartCall(path) = Same THEN run ELSE RunOf(StartCall(path))
       ELSE /\ Apply(Same)
            /\ UNCHANGED <<lastApi, run>>
    /\ op' = Op("path:ready", path)
    /\ UNCHANGED <<config, calc, flow, boot, pathVars, pc>>

\* A playing tween reaches its end: its first 'complete' handler fires
\* 'camera:waypoint' and the listeners of that event run.
TweenComplete(d, i) ==
    /\ script = "CameraMover"
    /\ pc = "idle"
    /\ <<d, i>> \in Active
    /\ IF d = 0
       THEN /\ _tweens' = [_tweens EXCEPT ![i].st = "completed"]
            /\ fired' = <<Ev("camera:waypoint", _tweens[i].index)>>
            /\ UNCHANGED detached
       ELSE /\ detached' = [detached EXCEPT ![d][i].st = "completed"]
            /\ fired' = <<Ev("camera:waypoint", detached[d][i].index)>>
            /\ UNCHANGED _tweens
    /\ pc' = "listener"
    /\ cur' = [chain |-> d, pos |-> i]
    /\ op' = Op("complete", 0)
    /\ run' = IF run.clean THEN [run EXCEPT !.wp = Append(@, fired'[1].index)] ELSE run
    /\ UNCHANGED <<config, calc, flow, boot, pathVars, _running, _lastPath, lastApi>>

\* _finish()
Finish == [Same EXCEPT !.running = FALSE, !.fired = <<Ev("camera:path:complete", 0)>>]

\* _onSequenceComplete()
OnSequenceComplete ==
    IF loop /\ _lastPath # NoPath THEN StartCall(_lastPath) ELSE Finish

\* What is left of a detached chain once its tween at pos has completed and
\* started the one chained to it.
Advance(chain, pos) ==
    IF pos < Len(chain)
    THEN SubSeq([chain EXCEPT ![pos + 1] = TweenStart(@)], pos + 1, Len(chain))
    ELSE <<>>

DropEmpty(chains) == SelectSeq(chains, LAMBDA c : c # <<>>)

CurTween == IF cur.chain = 0 THEN _tweens[cur.pos] ELSE detached[cur.chain][cur.pos]

\* The completion in progress ends a pass and launches the next one.
Relaunches ==
    /\ CurTween.seq
    /\ loop /\ _lastPath # NoPath
    /\ StartCall(_lastPath) # Same

\* The listeners have returned: the tween's second 'complete' handler, if it
\* has one, runs _onSequenceComplete, and then its chained tween is started.
ListenerReturn ==
    /\ script = "CameraMover"
    /\ pc = "listener"
    /\ LET r == IF CurTween.seq THEN OnSequenceComplete ELSE Same
       IN IF cur.chain = 0 /\ r.cur.chain = 0
          THEN \* the completing tween is still in this._tweens
               /\ _tweens' = IF cur.pos < Len(r.tweens)
                             THEN [r.tweens EXCEPT ![cur.pos + 1] = TweenStart(@)]
                             ELSE r.tweens
               /\ detached' = r.detached
               /\ _running' = r.running
               /\ fired' = r.fired
          ELSE \* it belongs to a detached chain
               /\ _tweens' = r.tweens
               /\ detached' = DropEmpty([r.detached EXCEPT ![r.cur.chain] = Advance(@, r.cur.pos)])
               /\ _running' = r.running
               /\ fired' = r.fired
    /\ pc' = "idle"
    /\ cur' = NoCur
    /\ op' = Op("return", 0)
    /\ run' = IF run.clean
              THEN [run EXCEPT !.done = @ + Count("camera:path:complete", fired'),
                               !.wp = IF Relaunches THEN <<>> ELSE @]
              ELSE run
    /\ UNCHANGED <<config, calc, flow, boot, pathVars, _lastPath, lastApi>>

\* ------------------------------------------------------- CameraWaypointPath
\* The two CameraWaypointPath scripts: the one that samples a curve per
\* segment and the flat one that moves waypoint to waypoint.
PathScripts == {"CameraWaypointPath", "CameraWaypointPath:flat"}

\* inputScriptNames
InputScripts == 1..NumScripts

\* Waypoint data as a parse leaves it: n = waypointPositions.length, and
\* pauses[i + 1] = waypointPauses[i] (0 or a positive duration).
WaypointSets ==
    UNION {{[n |-> n, pauses |-> f] : f \in [1..n -> {0, 1}]} : n \in 0..MaxPos}

\* _buildSegments(): the stops are 0, length - 1 and every index with a
\* positive pause; one segment per pair of consecutive stops, with the
\* indices of the points before start and after end (-1: null).
Stops(length, pauses) ==
    {0, length - 1}
        \cup {i \in 0..(length - 1) : i + 1 \in DOMAIN pauses /\ pauses[i + 1] > 0}

RECURSIVE SortedSeq(_)
\* Array.from(stops).sort((a, b) => a - b)
SortedSeq(S) ==
    IF S = {} THEN <<>>
    ELSE LET m == CHOOSE x \in S : \A y \in S : x <= y
         IN <<m>> \o SortedSeq(S \ {m})

\* _buildSegments() cutting at every waypoint.
BuildSegmentsEveryWaypoint(length, pauses) ==
    [i \in 1..(length - 1) |->
        [start |-> i - 1, end |-> i,
         prevPoint |-> IF i > 1 THEN i - 2 ELSE -1,
         nextPoint |-> IF i + 1 < length THEN i + 1 ELSE -1]]

\* _buildSegments() taking the waypoints at start and at end as neighbours.
BuildSegmentsNeighboursInside(length, pauses) ==
    IF length = 0 THEN <<>>
    ELSE LET indices == SortedSeq(Stops(length, pauses))
             pairs == [i \in 1..(Len(indices) - 1) |->
                          [start |-> indices[i],
                           end |-> indices[i + 1],
                           prevPoint |-> IF indices[i] > 0 THEN indices[i] ELSE -1,
                           nextPoint |-> IF indices[i + 1] + 1 < length
                                         THEN indices[i + 1] ELSE -1]]
         IN SelectSeq(pairs, LAMBDA g : g.end > g.start)

\* _buildSegments(positions, pauses) of WaypointPathBuilder, part_001 lines
\* 96-119: it has no test of the length.
SegmentPairs(length, pauses) ==
    LET indices == SortedSeq(Stops(length, pauses))
        pairs == [i \in 1..(Len(indices) - 1) |->
                     [start |-> indices[i],
                      end |-> indices[i + 1],
                      prevPoint |-> IF indices[i] > 0 THEN indices[i] - 1 ELSE -1,
                      nextPoint |-> IF indices[i + 1] + 1 < length
                                    THEN indices[i + 1] + 1 ELSE -1]]
    IN SelectSeq(pairs, LAMBDA g : g.end > g.start)

\* _buildSegments() of CameraWaypointPath, lines 325-351: no segment without
\* positions; and the segments buildPath gets, which calls _buildSegments
\* with at least one position.
BuildSegments(length, pauses) ==
    IF length = 0 THEN <<>> ELSE SegmentPairs(length, pauses)

RECURSIVE CurveTasks(_)
\* startPath() of the curve script, lines 227-253: a segment whose point
\* list (the current position and the waypoints start..end) has fewer than
\* 2 points is skipped; the others get one tween, which logs waypoint
\* number end + 1.
CurveTasks(segs) ==
    IF segs = <<>> THEN <<>>
    ELSE (IF 1 + (Head(segs).end - Head(segs).start + 1) < 2 THEN <<>>
          ELSE <<Head(segs).end + 1>>)
         \o CurveTasks(Tail(segs))

RECURSIVE FlatTasks(_, _)
\* startPath() of the flat script, lines 221-246: one tween per waypoint
\* from index i on (it logs waypoint number i + 1), followed by a wait tween
\* (index 0: it logs nothing) when the waypoint's pause is positive.
FlatTasks(w, i) ==
    IF i >= w.n THEN <<>>
    ELSE <<i + 1>> \o (IF w.pauses[i + 1] > 0 THEN <<0>> ELSE <<>>) \o FlatTasks(w, i + 1)

\* The waypoint numbers the tweens of startPath() log, the waypoint data
\* being w.
PathTasksOf(w) ==
    IF script = "CameraWaypointPath:flat" THEN FlatTasks(w, 0)
    ELSE CurveTasks(BuildSegments(w.n, w.pauses))

PathTasks == PathTasksOf(waypoints)

RECURSIVE SuspendPresent(_, _, _)
\* _setInputEnabled(false) that records every script that is there, enabled
\* or not.
SuspendPresent(names, en, dis) ==
    IF names = <<>> THEN [enabled |-> en, disabled |-> dis]
    ELSE IF en[Head(names)] # "absent"
         THEN SuspendPresent(Tail(names), [en EXCEPT ![Head(names)] = "off"],
                             Append(dis, Head(names)))
         ELSE SuspendPresent(Tail(names), en, dis)

RECURSIVE Suspend(_, _, _)
\* _setInputEnabled(false): every configured script that is there and
\* enabled is disabled and recorded.
Suspend(names, en, dis) ==
    IF names = <<>> THEN [enabled |-> en, disabled |-> dis]
    ELSE IF en[Head(names)] = "on"
         THEN Suspend(Tail(names), [en EXCEPT ![Head(names)] = "off"],
                      Append(dis, Head(names)))
         ELSE Suspend(Tail(names), en, dis)

\* _setInputEnabled(true) that enables every script that is there.
ResumeEverything(en, dis) ==
    [enabled |-> [x \in DOMAIN en |-> IF en[x] = "absent" THEN "absent" ELSE "on"],
     disabled |-> <<>>]

\* _setInputEnabled(true): every recorded script is enabled, the record
\* emptied.
Resume(en, dis) ==
    [enabled |-> [x \in DOMAIN en |->
                     IF \E i \in DOMAIN dis : dis[i] = x THEN "on" ELSE en[x]],
     disabled |-> <<>>]

SetInputEnabled(on, en, dis) ==
    IF on THEN Resume(en, dis)
    ELSE Suspend([i \in 1..NumScripts |-> i], en, dis)

\* The state with this._tweens = list, otherwise as it is.
PathSame(list) ==
    [tweens |-> list, running |-> _running, detached |-> detached,
     enabled |-> enabled, disabled |-> _disabledScripts]

\* stopPath(restoreInput), this._tweens being list
StopPathCall(restoreInput, list) ==
    LET keep == KeepFrom(StopTweens(list), 0)
        inp == IF restoreInput THEN SetInputEnabled(TRUE, enabled, _disabledScripts)
               ELSE [enabled |-> enabled, disabled |-> _disabledScripts]
    IN [tweens |-> <<>>,
        running |-> FALSE,
        detached |-> IF keep = <<>> THEN detached ELSE Append(detached, keep),
        enabled |-> inp.enabled,
        disabled |-> inp.disabled]

\* _finishPath() after the state r
FinishPath(r) ==
    LET inp == SetInputEnabled(TRUE, r.enabled, r.disabled)
    IN [r EXCEPT !.running = FALSE, !.enabled = inp.enabled, !.disabled = inp.disabled]

\* The restoreInput argument startPath() gives to stopPath(), line 218.
PathCancelRestore == FALSE

\* startPath(), this._tweens being list and the waypoint data w
StartPathWith(w, list) ==
    IF w.n = 0 THEN PathSame(list)
    ELSE LET s == StopPathCall(PathCancelRestore, list)
             inp == SetInputEnabled(FALSE, s.enabled, s.disabled)
             launched == [s EXCEPT !.tweens = NewChain(PathTasksOf(w)),
                                   !.running = TRUE,
                                   !.enabled = inp.enabled,
                                   !.disabled = inp.disabled]
         IN IF Len(PathTasksOf(w)) = 0 THEN FinishPath(launched) ELSE launched

\* startPath(), this._tweens being list
StartPathCall(list) == StartPathWith(waypoints, list)

PathApply(r) ==
    /\ _tweens' = r.tweens
    /\ _running' = r.running
    /\ detached' = r.detached
    /\ enabled' = r.enabled
    /\ _disabledScripts' = r.disabled

StartPath ==
    /\ script \in PathScripts
    /\ PathApply(StartPathCall(_tweens))
    /\ op' = Op("start", 0)
    /\ lastApi' = "start"
    /\ fired' = <<>>
    /\ UNCHANGED <<config, calc, flow, boot, _lastPath, waypoints, pc, cur, run>>

StopPath(restoreInput) ==
    /\ script \in PathScripts
    /\ PathApply(StopPathCall(restoreInput, _tweens))
    /\ op' = Op("stop", restoreInput)
    /\ lastApi' = "stop"
    /\ fired' = <<>>
    /\ UNCHANGED <<config, calc, flow, boot, _lastPath, waypoints, pc, cur, run>>

\* _onSequenceComplete() of CameraWaypointPath, this._tweens being list
PathSequenceComplete(list) ==
    IF loop THEN StartPathCall(list) ELSE FinishPath(PathSame(list))

\* A playing tween of the list reaches its end: its handlers run (the
\* waypoint log, then _onSequenceComplete on the last tween) and the tween
\* chained to it is started.
PathTweenComplete(i) ==
    /\ script \in PathScripts
    /\ i \in ActiveIn(_tweens)
    /\ LET done == [_tweens EXCEPT ![i].st = "completed"]
           r == IF done[i].seq THEN PathSequenceComplete(done) ELSE PathSame(done)
       IN PathApply([r EXCEPT !.tweens = IF r.tweens = done /\ i < Len(done)
                                         THEN [done EXCEPT ![i + 1] = TweenStart(@)]
                                         ELSE @])
    /\ op' = Op("complete", 0)
    /\ fired' = <<>>
    /\ UNCHANGED <<config, calc, flow, boot, _lastPath, waypoints, pc, cur, lastApi, run>>

\* ------------------------------------------------------ building functions
\* The functions that build segments, tasks and curve samples are followed
\* one call at a time: calc holds the function and its inputs and, once the
\* call has returned (done), its result out.
NoCalc == [fn |-> "none", done |-> FALSE]

\* No other script is attached.
NoFlow == [attached |-> FALSE]

\* initialize() is not followed.
NoBoot == [phase |-> "none"]

\* The playback state, which a building function leaves alone.
playback == <<script, loop, autoStart, _tweens, _running, _lastPath, waypoints,
              enabled, _disabledScripts, detached, pc, cur, op, fired, lastApi, run,
              flow, boot>>

\* Orientations.  An entry of a rotations array is absent ("none"), Euler
\* angles (a Vec3, what the parsers produce) or a Quat; v tells values apart.
NoRotation == [kind |-> "none", v |-> 0]

RotEntries == {NoRotation, [kind |-> "euler", v |-> 1], [kind |-> "quat", v |-> 2]}

\* target.getLocalRotation() when the chain is built
EntityRot == [q |-> "entity", v |-> 0]

\* _toQuat(value) of CameraMover, lines 278-288: a Quat is cloned, Euler
\* angles are converted, anything else gives the identity.
ToQuat(value) ==
    IF value.kind = "quat" THEN [q |-> "quat", v |-> value.v]
    ELSE IF value.kind = "euler" THEN [q |-> "fromEuler", v |-> value.v]
    ELSE [q |-> "identity", v |-> 0]

\* rotations[index], index counted from 0; undefined ("none") past the end.
RotationAt(rotations, index) ==
    IF index + 1 \in DOMAIN rotations THEN rotations[index + 1] ELSE NoRotation

\* _resolveRotation() that ignores the explicit rotation.
ResolveRotationCarryOnly(rotations, endIndex, fallbackRot, useRotations) == fallbackRot

\* _resolveRotation(path, endIndex, fallbackRot), lines 271-276
ResolveRotation(rotations, endIndex, fallbackRot, useRotations) ==
    IF ~useRotations THEN fallbackRot
    ELSE IF RotationAt(rotations, endIndex).kind = "none" THEN fallbackRot
    ELSE ToQuat(RotationAt(rotations, endIndex))

RECURSIVE MoverTasks(_, _, _, _)
\* start(path), lines 119-142: the task built for each segment with at least
\* 2 samples: the index it reports, the orientation it starts from (the
\* carried one), the one it ends at, and the one its notification carries.
\* A segment with fewer samples is passed over by `continue`.
MoverTasks(segs, rotations, useRotations, currentRot) ==
    IF segs = <<>> THEN <<>>
    ELSE IF Head(segs).samples < 2
         THEN MoverTasks(Tail(segs), rotations, useRotations, currentRot)
         ELSE LET targetRot == ResolveRotation(rotations, Head(segs).endIndex,
                                               currentRot, useRotations)
              IN <<[kind |-> "move", index |-> Head(segs).endIndex,
                    fromRot |-> currentRot, toRot |-> targetRot,
                    rotation |-> targetRot]>>
                 \o MoverTasks(Tail(segs), rotations, useRotations, targetRot)

\* Positions are points <<x, z>> of a path whose consecutive points differ
\* along one axis at most, so that distance() is the sum below.
Abs(x) == IF x < 0 THEN -x ELSE x

Distance(a, b) == Abs(a[1] - b[1]) + Abs(a[2] - b[2])

Max(a, b) == IF a >= b THEN a ELSE b

\* Math.max(distance * durationPerUnit, minDuration), durations and
\* durationPerUnit counted in tenths.
Duration(distance, durationPerUnit, minDuration) ==
    Max(distance * durationPerUnit, minDuration)

RECURSIVE LinearHops(_, _, _)
\* startFromWaypoints(data), lines 171-190, from hop i on: the task of hop
\* i goes from positions[i - 1] to positions[i]; data.pauses is not read.
LinearHops(data, i, currentRot) ==
    IF i >= Len(data.positions) THEN <<>>
    ELSE LET targetRot == IF data.useRotations /\ RotationAt(data.rotations, i).kind # "none"
                          THEN ToQuat(RotationAt(data.rotations, i))
                          ELSE currentRot
         IN <<[kind |-> "move", index |-> i,
               from |-> data.positions[i], to |-> data.positions[i + 1],
               duration |-> Duration(Distance(data.positions[i], data.positions[i + 1]),
                                     data.durationPerUnit, data.minDuration),
               fromRot |-> currentRot, toRot |-> targetRot,
               rotation |-> targetRot]>>
            \o LinearHops(data, i + 1, targetRot)

\* A pauses array: it may be shorter or longer than positions; an entry is
\* positive or not.
PauseArrays == UNION {[1..k -> {0, 1}] : k \in 0..(MaxLen + 1)}

\* The calls of _buildSegments: positions.length and the pauses array.
BuildSegmentsCalls ==
    {[fn |-> "buildSegments", done |-> FALSE, length |-> n, pauses |-> ps] :
        n \in 1..MaxLen, ps \in PauseArrays}

\* _buildSegments(positions, pauses) of WaypointPathBuilder and
\* _buildSegments() of CameraWaypointPath
ApplyBuildSegments ==
    /\ calc.fn = "buildSegments" /\ ~calc.done
    /\ calc' = [fn |-> calc.fn, done |-> TRUE, length |-> calc.length,
                pauses |-> calc.pauses,
                out |-> BuildSegments(calc.length, calc.pauses)]
    /\ UNCHANGED playback

\* A hop of a position list: none, 10 units along x or 10 units along z.
HopSteps == {<<0, 0>>, <<10, 0>>, <<0, 10>>}

RECURSIVE Walk(_, _)
\* The positions reached from start by the hops of steps, start included.
Walk(start, steps) ==
    IF steps = <<>> THEN <<start>>
    ELSE <<start>> \o Walk(<<start[1] + Head(steps)[1], start[2] + Head(steps)[2]>>,
                           Tail(steps))

PositionLists(n) ==
    IF n = 0 THEN {<<>>} ELSE {Walk(<<0, 0>>, st) : st \in [1..(n - 1) -> HopSteps]}

\* The calls of startFromWaypoints: data.positions, data.rotations and
\* data.pauses as the fetcher fires them (one rotation and one pause per
\* waypoint, a rotation absent or Euler angles), and the attributes read.
\* The pauses, which startFromWaypoints never reads, vary on the straight
\* walk without rotations and are 0 elsewhere.
StartFromWaypointsCalls ==
    UNION {
        {[fn |-> "startFromWaypoints", done |-> FALSE, positions |-> ps,
          rotations |-> rs, pauses |-> [i \in 1..n |-> 0], useRotations |-> u,
          durationPerUnit |-> 1, minDuration |-> md] :
            ps \in PositionLists(n),
            rs \in [1..n -> {NoRotation, [kind |-> "euler", v |-> 1]}],
            u \in BOOLEAN,
            md \in {1, 20}}
        \cup
        {[fn |-> "startFromWaypoints", done |-> FALSE,
          positions |-> Walk(<<0, 0>>, [i \in 1..(n - 1) |-> <<10, 0>>]),
          rotations |-> [i \in 1..n |-> NoRotation], pauses |-> pa,
          useRotations |-> TRUE, durationPerUnit |-> 1, minDuration |-> 1] :
            pa \in [1..n -> {0, 1}]} : n \in 1..MaxPos }
        \cup
        {[fn |-> "startFromWaypoints", done |-> FALSE, positions |-> <<>>,
          rotations |-> <<>>, pauses |-> <<>>, useRotations |-> u,
          durationPerUnit |-> 1, minDuration |-> md] :
            u \in BOOLEAN, md \in {1, 20}}

\* The calls of start: path.segments, path.rotations and useRotations.
StartCalls ==
    {[fn |-> "start", done |-> FALSE, segments |-> p.segments, rotations |-> rs,
      useRotations |-> u] :
        p \in Paths,
        rs \in UNION {[1..k -> RotEntries] : k \in 0..(MaxSegs + 1)},
        u \in BOOLEAN}

\* The calls of startPath of the flat CameraWaypointPath: its waypoint data.
FlatCalls ==
    {[fn |-> "startPath:flat", done |-> FALSE, waypoints |-> w] : w \in WaypointSets}

\* startFromWaypoints(data): the chain it builds.
ApplyStartFromWaypoints ==
    /\ calc.fn = "startFromWaypoints" /\ ~calc.done
    /\ calc' = [calc EXCEPT !.done = TRUE] @@ [out |-> LinearHops(calc, 1, EntityRot)]
    /\ UNCHANGED playback

\* start(path): the chain it builds.
ApplyStart ==
    /\ calc.fn = "start" /\ ~calc.done
    /\ calc' = [calc EXCEPT !.done = TRUE]
                @@ [out |-> MoverTasks(calc.segments, calc.rotations,
                                       calc.useRotations, EntityRot)]
    /\ UNCHANGED playback

RECURSIVE FlatChain(_, _)
\* startPath() of the flat script, lines 221-246, from waypoint i on: the
\* move tween to waypoint i and, when waypointPauses[i] > 0, a wait tween
\* delayed by that pause.
FlatChain(w, i) ==
    IF i >= w.n THEN <<>>
    ELSE <<[kind |-> "move", index |-> i, delay |-> 0]>>
         \o (IF w.pauses[i + 1] > 0
             THEN <<[kind |-> "wait", index |-> i, delay |-> w.pauses[i + 1]]>>
             ELSE <<>>)
         \o FlatChain(w, i + 1)

\* startPath() of the flat script: the chain it builds.
ApplyFlatStartPath ==
    /\ calc.fn = "startPath:flat" /\ ~calc.done
    /\ calc' = [calc EXCEPT !.done = TRUE] @@ [out |-> FlatChain(calc.waypoints, 0)]
    /\ UNCHANGED playback

\* ------------------------------------------------------------ specification
Init ==
    /\ script \in {"CameraMover"} \cup PathScripts
    /\ loop \in BOOLEAN
    /\ IF script = "CameraMover"
       THEN /\ autoStart \in BOOLEAN
            /\ waypoints = [n |-> 0, pauses |-> <<>>]
            /\ enabled = [x \in InputScripts |-> "absent"]
       ELSE /\ autoStart = FALSE
            /\ waypoints \in WaypointSets
            /\ enabled \in [InputScripts -> {"on", "off", "absent"}]
    /\ _disabledScripts = <<>>
    /\ _tweens = <<>>
    /\ _running = FALSE
    /\ _lastPath = NoPath
    /\ detached = <<>>
    /\ pc = "idle"
    /\ cur = NoCur
    /\ op = Op("init", 0)
    /\ fired = <<>>
    /\ lastApi = "none"
    /\ run = NoRun
    /\ calc = NoCalc
    /\ flow = NoFlow
    /\ boot = NoBoot

Next ==
    \/ \E path \in Paths : Start(path)
    \/ \E data \in Datas : StartFromWaypoints(data)
    \/ \E restore \in BOOLEAN : Stop(restore)
    \/ \E path \in BuiltPaths : OnPath(path)
    \/ \E d \in 0..MaxDetached, i \in 1..(MaxSegs + MaxPos) : TweenComplete(d, i)
    \/ ListenerReturn
    \/ StartPath
    \/ \E restoreInput \in BOOLEAN : StopPath(restoreInput)
    \/ \E i \in 1..(2 * MaxPos) : PathTweenComplete(i)

Spec == Init /\ [][Next]_vars

\* ------------------------------------------------------------ curve sampling
\* Coordinates are numbers of Precision significant bits: every Vec3
\* operation rounds its result to the nearest such number, ties to even.
\* Points lie on the x axis.  Parameters of the curve (knots, t) are
\* fractions <<numerator, denominator>> with a positive denominator.
RECURSIVE Pow2(_)
Pow2(n) == IF n = 0 THEN 1 ELSE 2 * Pow2(n - 1)

RECURSIVE Bits(_)
Bits(n) == IF n = 0 THEN 0 ELSE 1 + Bits(n \div 2)

\* The nearest integer to n / d (d > 0), ties to even.
RoundHalfEven(n, d) ==
    LET q == (2 * n + d) \div (2 * d)
    IN IF (2 * n + d) % (2 * d) = 0 /\ q % 2 = 1 THEN q - 1 ELSE q

\* x rounded to Precision significant bits.
Fl(x) ==
    LET mag == Abs(x)
        q == Pow2(Bits(mag) - Precision)
        r == q * RoundHalfEven(mag, q)
    IN IF mag < Pow2(Precision) THEN x ELSE IF x < 0 THEN -r ELSE r

\* Math.round(n / d): the nearest integer, ties upwards.
Round(n, d) == (2 * n + d) \div (2 * d)

\* Math.ceil(n / d)
Ceil(n, d) == -((-n) \div d)

\* _safeDivide(numerator, divisor): the fraction t[1] / t[2] divided by the
\* integer divisor; 0 when the divisor is (below EPSILON) zero.
SafeDivide(t, divisor) ==
    IF divisor = 0 THEN <<0, 1>>
    ELSE IF divisor < 0 THEN <<-t[1], t[2] * (-divisor)>>
    ELSE <<t[1], t[2] * divisor>>

\* Math.min(Math.max(t, 0), 1)
Clamp(t) == IF t[1] < 0 THEN <<0, 1>> ELSE IF t[1] > t[2] THEN <<1, 1>> ELSE t

\* _lerpVec3(a, b, t): v.lerp(a, b, alpha) is a + alpha * (b - a), each
\* operation rounded.
LerpVec3(a, b, t) ==
    Fl(a + Fl(RoundHalfEven(Clamp(t)[1] * Fl(b - a), Clamp(t)[2])))

\* _getT(ti, p, q, alpha) - ti with alpha = 1: the distance of p and q,
\* which are at least 1 apart.
Knot(p, q) == Abs(p - q)

\* _catmullRom(p0, p1, p2, p3, t, alpha) at t = j / steps
CatmullRom(p0, p1, p2, p3, j, steps) ==
    LET t0 == 0
        t1 == t0 + Knot(p0, p1)
        t2 == t1 + Knot(p1, p2)
        t3 == t2 + Knot(p2, p3)
        tt == t1 * steps + (t2 - t1) * j      \* over steps
        A1 == LerpVec3(p0, p1, SafeDivide(<<tt - t0 * steps, steps>>, t1 - t0))
        A2 == LerpVec3(p1, p2, SafeDivide(<<tt - t1 * steps, steps>>, t2 - t1))
        A3 == LerpVec3(p2, p3, SafeDivide(<<tt - t2 * steps, steps>>, t3 - t2))
        B1 == LerpVec3(A1, A2, SafeDivide(<<tt - t0 * steps, steps>>, t2 - t0))
        B2 == LerpVec3(A2, A3, SafeDivide(<<tt - t1 * steps, steps>>, t3 - t1))
    IN LerpVec3(B1, B2, SafeDivide(<<tt - t1 * steps, steps>>, t2 - t1))

\* _extrapolate(point, reference, lengthFactor): point plus lengthFactor
\* times the unit vector of point - reference ((0, 0, 1), which has no x
\* component, when the two coincide).
Extrapolate(point, reference, lengthFactor) ==
    LET dir == point - reference
        unit == IF dir = 0 THEN 0 ELSE IF dir > 0 THEN 1 ELSE -1
    IN Fl(point + unit * lengthFactor)

RECURSIVE Sum(_)
Sum(seq) == IF seq = <<>> THEN 0 ELSE Head(seq) + Sum(Tail(seq))

\* points[i].distance(points[i - 1]) for each sub-segment
SegmentLengths(points) == [i \in 1..(Len(points) - 1) |-> Abs(points[i + 1] - points[i])]

\* The step counts without the floor of 4.
StepCountsUnfloored(segmentLengths, sampleCount) ==
    LET totalLength == IF Sum(segmentLengths) = 0 THEN 1 ELSE Sum(segmentLengths)
    IN [i \in DOMAIN segmentLengths |->
           Round(sampleCount * segmentLengths[i], totalLength)]

\* _sampleCurve() lines 152-153: Math.max(4, Math.round(sampleCount * ratio))
\* for each sub-segment, ratio = segmentLengths[i] / (totalLength || 1).
StepCounts(segmentLengths, sampleCount) ==
    LET totalLength == IF Sum(segmentLengths) = 0 THEN 1 ELSE Sum(segmentLengths)
    IN [i \in DOMAIN segmentLengths |->
           Max(4, Round(sampleCount * segmentLengths[i], totalLength))]

\* A boundary point handed to _sampleCurve: null or a point.
NoPoint == [has |-> FALSE, x |-> 0]

RECURSIVE SamplesFrom(_, _, _)
\* _sampleCurve() lines 147-158, from sub-segment i on
SamplesFrom(i, extended, steps) ==
    IF i > Len(steps) THEN <<>>
    ELSE [j \in 1..steps[i] |->
             CatmullRom(extended[i], extended[i + 1], extended[i + 2],
                        extended[i + 3], j - 1, steps[i])]
         \o SamplesFrom(i + 1, extended, steps)

\* _sampleCurve(points, prevPoint, nextPoint, sampleCount, alpha) for
\* points.length >= 2: the samples, with the step counts and the two
\* boundary control points it used.
SampleCurve(points, prevPoint, nextPoint, sampleCount) ==
    LET n == Len(points)
        startExtra == IF prevPoint.has THEN prevPoint.x
                      ELSE Extrapolate(points[1], points[2], -2)
        endExtra == IF nextPoint.has THEN nextPoint.x
                    ELSE Extrapolate(points[n], points[n - 1], 2)
        extended == <<startExtra>> \o points \o <<endExtra>>
        steps == StepCounts(SegmentLengths(points), sampleCount)
    IN [samples |-> SamplesFrom(1, extended, steps) \o <<points[n]>>,
        steps |-> steps, startExtra |-> startExtra, endExtra |-> endExtra]

\* buildPath() lines 74-76 and _sampleCurve(): the number of samples of a
\* segment whose sub-segments have the given lengths; sampleDensity is
\* counted in halves.
TotalSamples(segmentLengths, sampleDensity, minSamples) ==
    LET distance == Sum(segmentLengths)
        sampleCount == Max(minSamples, Ceil(distance * sampleDensity, 2))
    IN Sum(StepCounts(segmentLengths, sampleCount)) + 1

\* Coordinates of waypoints: small ones and the largest of Precision bits.
Coords == {-Pow2(Precision), -1, 0, 1, Pow2(Precision)}

\* Chains of 2..MaxChain points, consecutive points distinct.
PointChains ==
    UNION {{c \in [1..n -> Coords] : \A i \in 1..(n - 1) : c[i] # c[i + 1]} :
              n \in 2..MaxChain}

\* The calls of _sampleCurve: a chain, the waypoint before it and the one
\* after it (null at the ends of the path), and the sample budget.
SampleCurveCalls ==
    {[fn |-> "sampleCurve", done |-> FALSE, points |-> c, prevPoint |-> pp,
      nextPoint |-> np, sampleCount |-> 8] :
        c \in PointChains,
        pp \in {NoPoint} \cup {[has |-> TRUE, x |-> x] : x \in Coords},
        np \in {NoPoint} \cup {[has |-> TRUE, x |-> x] : x \in Coords}}

ApplySampleCurve ==
    /\ calc.fn = "sampleCurve" /\ ~calc.done
    /\ ~calc.prevPoint.has \/ calc.prevPoint.x # calc.points[1]
    /\ ~calc.nextPoint.has \/ calc.nextPoint.x # calc.points[Len(calc.points)]
    /\ calc' = [calc EXCEPT !.done = TRUE]
               @@ [out |-> SampleCurve(calc.points, calc.prevPoint, calc.nextPoint,
                                       calc.sampleCount)]
    /\ UNCHANGED playback

\* The calls of buildPath for one segment: the lengths of its sub-segments
\* and the attributes sampleDensity (in halves) and minSamples.
SampleCountCalls ==
    {[fn |-> "sampleCount", done |-> FALSE, lengths |-> ls, sampleDensity |-> sd,
      minSamples |-> ms] :
        ls \in UNION {[1..k -> 1..MaxSubLen] : k \in 1..(MaxChain - 1)},
        sd \in 1..3,
        ms \in 6..8}

ApplySampleCount ==
    /\ calc.fn = "sampleCount" /\ ~calc.done
    /\ calc' = [calc EXCEPT !.done = TRUE]
               @@ [out |-> TotalSamples(calc.lengths, calc.sampleDensity,
                                        calc.minSamples)]
    /\ UNCHANGED playback

\* The sample budgets whose shares are followed: none, the smallest of the
\* other calls, an odd one and the default minSamples.
Budgets == {0, 8, 9, 24}

\* The calls of the step count of _sampleCurve: the lengths of the
\* sub-segments, some or all of them 0, and the sample budget.
StepCountsCalls ==
    {[fn |-> "stepCounts", done |-> FALSE, lengths |-> ls, sampleCount |-> s] :
        ls \in UNION {[1..k -> 0..MaxSubLen] : k \in 1..(MaxChain - 1)},
        s \in Budgets}

ApplyStepCounts ==
    /\ calc.fn = "stepCounts" /\ ~calc.done
    /\ calc' = [calc EXCEPT !.done = TRUE]
               @@ [out |-> StepCounts(calc.lengths, calc.sampleCount)]
    /\ UNCHANGED playback

\* buildPath(data) for a list of fewer than 2 positions, lines 55-94: null
\* without positions, else the payload of 'path:ready' with the segments
\* built from the segments of _buildSegments that have 2 points or more.
ShortBuildPath(length, pauses) ==
    IF length = 0 THEN [null |-> TRUE, segments |-> <<>>]
    ELSE [null |-> FALSE,
          segments |-> SelectSeq(SegmentPairs(length, pauses),
                                 LAMBDA g : g.end - g.start + 1 >= 2)]

\* The calls of the segmenters with fewer than 2 positions: the script, the
\* number of positions and the pauses.
ShortCalls ==
    {[fn |-> "short", done |-> FALSE, script |-> s, length |-> n, pauses |-> ps] :
        s \in {"WaypointPathBuilder", "CameraWaypointPath"}, n \in 0..1,
        ps \in PauseArrays}

\* _buildSegments of the script, and buildPath of WaypointPathBuilder.
ApplyShort ==
    /\ calc.fn = "short" /\ ~calc.done
    /\ calc' = [calc EXCEPT !.done = TRUE]
               @@ [out |-> [segments |-> IF calc.script = "WaypointPathBuilder"
                                         THEN SegmentPairs(calc.length, calc.pauses)
                                         ELSE BuildSegments(calc.length, calc.pauses),
                            path |-> ShortBuildPath(calc.length, calc.pauses)]]
    /\ UNCHANGED playback

\* ------------------------------------------------------- built path playback
\* points of a segment: positions[start..end], indices counted from 0.
SegmentPoints(positions, g) == [k \in 1..(g.end - g.start + 1) |-> positions[g.start + k]]

\* prevPoint / nextPoint of a segment: the neighbouring waypoint or null.
PointAt(positions, index) ==
    IF index < 0 THEN NoPoint ELSE [has |-> TRUE, x |-> positions[index + 1]]

\* buildPath(data), lines 62-83: for every segment of at least 2 points its
\* indices, its samples and its length; sampleDensity is counted in halves.
BuildPath(positions, pauses, sampleDensity, minSamples) ==
    LET segs == SelectSeq(BuildSegments(Len(positions), pauses),
                          LAMBDA g : g.end - g.start + 1 >= 2)
    IN [i \in DOMAIN segs |->
          LET points == SegmentPoints(positions, segs[i])
              distance == Sum(SegmentLengths(points))
              sampleCount == Max(minSamples, Ceil(distance * sampleDensity, 2))
          IN [startIndex |-> segs[i].start,
              endIndex |-> segs[i].end,
              samples |-> SampleCurve(points,
                                      PointAt(positions, segs[i].prevPoint),
                                      PointAt(positions, segs[i].nextPoint),
                                      sampleCount).samples,
              distance |-> distance]]

\* samples[samples.length - 2]
EndPositionBeforeLast(samples) == samples[Len(samples) - 1]

\* endPos of the completion handler, line 132: samples[samples.length - 1]
EndPosition(samples) == samples[Len(samples)]

\* The 'camera:waypoint' data of the tasks start(path) builds, lines 119-142,
\* in chain order.
WaypointEvents(built, rotations, useRotations) ==
    LET usable == SelectSeq(built, LAMBDA s : Len(s.samples) >= 2)
        tasks == MoverTasks([i \in DOMAIN built |->
                                Segment(Len(built[i].samples), built[i].endIndex)],
                            rotations, useRotations, EntityRot)
    IN [i \in DOMAIN tasks |->
           [index |-> tasks[i].index,
            position |-> EndPosition(usable[i].samples),
            rotation |-> tasks[i].rotation]]

\* Rotation arrays of a dataset of n waypoints: none, one Euler entry per
\* waypoint (entry i turned by i), or one short.
RotationArrays(n) ==
    {<<>>, [i \in 1..n |-> [kind |-> "euler", v |-> i]],
     [i \in 1..(n - 1) |-> [kind |-> "euler", v |-> i]]}

\* The waypoint chains that are played: those over the extreme, the zero and
\* the unit coordinate.
PlayChains ==
    {c \in PointChains : \A i \in DOMAIN c : c[i] \in {-Pow2(Precision), 0, 1}}

\* Datasets built and played: 2..MaxChain waypoints on a line, a pause or
\* none at each, with the smallest sample budget.
PlayBuiltCalls ==
    UNION {{[fn |-> "playBuilt", done |-> FALSE, positions |-> c, pauses |-> ps,
             rotations |-> rs, useRotations |-> u] :
               ps \in [1..Len(c) -> {0, 1}], rs \in RotationArrays(Len(c)),
               u \in BOOLEAN} : c \in PlayChains}

ApplyPlayBuilt ==
    /\ calc.fn = "playBuilt" /\ ~calc.done
    /\ calc' = [calc EXCEPT !.done = TRUE]
               @@ [out |-> LET built == BuildPath(calc.positions, calc.pauses, 1, 6)
                           IN [built |-> built,
                               events |-> WaypointEvents(built, calc.rotations,
                                                         calc.useRotations)]]
    /\ UNCHANGED playback

\* ---------------------------------------------------------------- curve task
\* Progress values are the fractions k / TDen, k in 0..TDen.
TDen == 4

\* pos.lerp(from, to, blend): from + blend * (to - from), each operation
\* rounded; blend is not clamped.
VecLerp(a, b, t) == Fl(a + Fl(RoundHalfEven(t[1] * Fl(b - a), t[2])))

\* samples[i], i counted from 0: undefined outside the list.
ReadSample(samples, i) ==
    IF i + 1 \in DOMAIN samples THEN [has |-> TRUE, x |-> samples[i + 1]] ELSE NoPoint

\* index + 1 without the bound
UpperIndexUnclamped(index, totalSegments) == index + 1

\* Math.min(index + 1, totalSegments)
UpperIndex(index, totalSegments) ==
    IF index + 1 < totalSegments THEN index + 1 ELSE totalSegments

\* The update of _createCurveTween at progress t = <<k, TDen>>: the two
\* indices it reads and the position it writes (none when a read is
\* undefined and lerp throws).
CurveUpdate(samples, t) ==
    LET totalSegments == Max(1, Len(samples) - 1)
        min == IF t[1] > t[2] THEN <<1, 1>> ELSE t
        scaled == <<min[1] * totalSegments, min[2]>>
        index == scaled[1] \div scaled[2]
        blend == <<scaled[1] - index * scaled[2], scaled[2]>>
        upper == UpperIndex(index, totalSegments)
        from == ReadSample(samples, index)
        to == ReadSample(samples, upper)
    IN [lower |-> index, upper |-> upper,
        thrown |-> ~(from.has /\ to.has),
        pos |-> IF from.has /\ to.has THEN VecLerp(from.x, to.x, blend) ELSE 0]

\* Sample lists of 2..MaxChain samples and the progress values.
CurveUpdateCalls ==
    UNION {{[fn |-> "curveUpdate", done |-> FALSE, samples |-> s, t |-> <<k, TDen>>] :
               s \in [1..n -> Coords], k \in 0..TDen} : n \in 2..MaxChain}

ApplyCurveUpdate ==
    /\ calc.fn = "curveUpdate" /\ ~calc.done
    /\ calc' = [calc EXCEPT !.done = TRUE] @@ [out |-> CurveUpdate(calc.samples, calc.t)]
    /\ UNCHANGED playback

\* Control points with non-degenerate knots (consecutive points distinct)
\* and the parameters t = j / TDen.
CatmullRomCalls ==
    {[fn |-> "catmullRom", done |-> FALSE, p |-> c, j |-> j] :
        c \in {c \in [1..4 -> Coords] : \A i \in 1..3 : c[i] # c[i + 1]},
        j \in 0..TDen}

ApplyCatmullRom ==
    /\ calc.fn = "catmullRom" /\ ~calc.done
    /\ calc' = [calc EXCEPT !.done = TRUE]
               @@ [out |-> CatmullRom(calc.p[1], calc.p[2], calc.p[3], calc.p[4],
                                      calc.j, TDen)]
    /\ UNCHANGED playback

\* -------------------------------------------------------------- data parsing
\* Rows of a JSON payload: a falsy row, or an object whose position and
\* rotation are there (a tag that names them) or missing (0), with a pause.
JsonRows ==
    {[null |-> TRUE]}
        \cup {[null |-> FALSE, pos |-> p, rot |-> r, wait |-> w] :
                p \in {0, 1}, r \in {0, 2}, w \in {0, 1}}

\* _toVec3(value): a vector made of the value's components.
ToVec3(value) == [vec |-> value]

RECURSIVE ParseJsonRows(_, _)
\* The loop of _parseJson over the rows, acc being the three arrays.
ParseJsonRows(rows, acc) ==
    IF rows = <<>> THEN acc
    ELSE LET row == Head(rows) IN
         IF row.null THEN ParseJsonRows(Tail(rows), acc)
         ELSE ParseJsonRows(Tail(rows),
                [null |-> FALSE,
                 positions |-> IF row.pos # 0
                               THEN Append(acc.positions, ToVec3(row.pos))
                               ELSE acc.positions,
                 rotations |-> IF row.rot # 0
                               THEN Append(acc.rotations, ToVec3(row.rot))
                               ELSE acc.rotations,
                 pauses |-> Append(acc.pauses, row.wait)])

\* The dataset before any row is read.
NoRows == [null |-> FALSE, positions |-> <<>>, rotations |-> <<>>, pauses |-> <<>>]

\* _parseJson(json) of WaypointFetcher and of CameraWaypointPath; null when
\* json is not an array.
ParseJson(json) ==
    IF ~json.array THEN [null |-> TRUE] ELSE ParseJsonRows(json.rows, NoRows)

\* Longest payload, in rows or lines.
MaxLines == 2

\* The sequences over S of length at most n.
SeqsUpTo(S, n) == UNION {[1..k -> S] : k \in 0..n}

ParseJsonCalls ==
    {[fn |-> "parseJson", done |-> FALSE, json |-> [array |-> FALSE, rows |-> <<>>]]}
        \cup {[fn |-> "parseJson", done |-> FALSE, json |-> [array |-> TRUE, rows |-> r]] :
                r \in SeqsUpTo(JsonRows, MaxLines)}

ApplyParseJson ==
    /\ calc.fn = "parseJson" /\ ~calc.done
    /\ calc' = [calc EXCEPT !.done = TRUE] @@ [out |-> ParseJson(calc.json)]
    /\ UNCHANGED playback

\* Number(c) of a trimmed field: a numeric literal gives its value, the
\* empty string gives 0, anything else (undefined included) gives NaN.
NumberOf(c) ==
    IF c.kind = "num" THEN [nan |-> FALSE, v |-> c.val]
    ELSE IF c.kind = "empty" THEN [nan |-> FALSE, v |-> 0]
    ELSE [nan |-> TRUE, v |-> 0]

\* x || 0 of a number: NaN and 0 give 0.
OrZero(n) == IF n.nan THEN 0 ELSE n.v

\* A field that is not there (cols[6] of a line of six fields).
Undefined == [kind |-> "undefined", val |-> 0]

\* line.trim() is the empty string: the line has one field and it is empty.
Blank(line) == Len(line) = 1 /\ line[1].kind = "empty"

RECURSIVE ParseCsvLines(_, _)
\* The loop of _parseCsv over the non-blank lines.
ParseCsvLines(lines, acc) ==
    IF lines = <<>> THEN acc
    ELSE LET cols == Head(lines)
             nums == [i \in DOMAIN cols |-> NumberOf(cols[i])]
         IN IF Len(cols) < 6 THEN ParseCsvLines(Tail(lines), acc)
            ELSE IF \E i \in DOMAIN nums : nums[i].nan
                 THEN ParseCsvLines(Tail(lines), acc)
            ELSE ParseCsvLines(Tail(lines),
                   [null |-> FALSE,
                    positions |-> Append(acc.positions,
                                         <<nums[1].v, nums[2].v, nums[3].v>>),
                    rotations |-> Append(acc.rotations,
                                         <<nums[4].v, nums[5].v, nums[6].v>>),
                    pauses |-> Append(acc.pauses,
                                 OrZero(NumberOf(IF 7 \in DOMAIN cols THEN cols[7]
                                                 ELSE Undefined)))])

\* _parseCsv(text), the text as its lines, each line as its fields.
ParseCsv(text) ==
    LET lines == SelectSeq(text, LAMBDA l : ~Blank(l)) IN
    IF lines = <<>> THEN [null |-> TRUE] ELSE ParseCsvLines(lines, NoRows)

\* A line of n numeric fields, field i being 10 * tag + i, with field k (if
\* any) replaced by a field of kind kd.
CsvLine(n, tag, k, kd) ==
    [i \in 1..n |-> IF i = k THEN [kind |-> kd, val |-> 0]
                    ELSE [kind |-> "num", val |-> 10 * tag + i]]

\* Lines of five to seven fields, two all numeric and two with an empty or
\* a non-numeric last field, and the blank line.
CsvLines ==
    {<<[kind |-> "empty", val |-> 0]>>}
        \cup UNION {{CsvLine(n, tag, 0, "empty") : tag \in 0..1}
                        \cup {CsvLine(n, 0, n, kd) : kd \in {"empty", "text"}} :
                    n \in 5..7}

ParseCsvCalls ==
    {[fn |-> "parseCsv", done |-> FALSE, text |-> t] : t \in SeqsUpTo(CsvLines, MaxLines)}

ApplyParseCsv ==
    /\ calc.fn = "parseCsv" /\ ~calc.done
    /\ calc' = [calc EXCEPT !.done = TRUE] @@ [out |-> ParseCsv(calc.text)]
    /\ UNCHANGED playback

\* ------------------------------------------------------------ format choice
\* The endings of a URL or of an asset's file URL.
Suffixes == {".csv", ".txt", ".json", ".CSV", ".JSON", "none"}

\* toLowerCase() of an ending.
Lower(s) == IF s = ".CSV" THEN ".csv" ELSE IF s = ".JSON" THEN ".json" ELSE s

\* A string by whether it is empty and how it ends.
Str(s) == [empty |-> FALSE, suffix |-> s]
EmptyStr == [empty |-> TRUE, suffix |-> "none"]

\* The third argument _applyWaypointData is given: the fetched URL for a URL
\* source; for an asset source the literal 'asset' in WaypointFetcher and
\* nothing (default '') in CameraWaypointPath.
SourceUrlArg(scr, kind, suffix) ==
    IF kind = "url" THEN Str(suffix)
    ELSE IF scr = "WaypointFetcher" THEN Str("none")
    ELSE EmptyStr

\* asset?.file?.url: the file URL of an asset source, nothing otherwise.
AssetFileUrl(kind, suffix) == IF kind = "asset" THEN Str(suffix) ELSE EmptyStr

\* The format _applyWaypointData parses with.
ChooseFormat(format, sourceUrl, assetUrl, dataType) ==
    IF format # "auto" THEN format
    ELSE LET url == IF ~sourceUrl.empty THEN sourceUrl
                    ELSE IF ~assetUrl.empty THEN assetUrl ELSE EmptyStr
             end == Lower(url.suffix)
         IN IF end \in {".csv", ".txt"} THEN "csv"
            ELSE IF end = ".json" THEN "json"
            ELSE IF dataType = "string" THEN "csv"
            ELSE IF dataType = "binary" THEN "csv"
            ELSE "json"

\* A URL source delivers text; an asset delivers text, bytes or an object.
FormatCalls ==
    {[fn |-> "format", done |-> FALSE, scr |-> s, format |-> f, kind |-> k,
      suffix |-> x, dataType |-> d] :
        s \in {"WaypointFetcher", "CameraWaypointPath"},
        f \in {"auto", "csv", "json"}, k \in {"url", "asset"}, x \in Suffixes,
        d \in {"string", "binary", "object"}}
        \ {c \in [fn : {"format"}, done : {FALSE},
                  scr : {"WaypointFetcher", "CameraWaypointPath"},
                  format : {"auto", "csv", "json"}, kind : {"url"},
                  suffix : Suffixes, dataType : {"binary", "object"}] : TRUE}

ApplyFormat ==
    /\ calc.fn = "format" /\ ~calc.done
    /\ calc' = [calc EXCEPT !.done = TRUE]
               @@ [out |-> ChooseFormat(calc.format,
                                        SourceUrlArg(calc.scr, calc.kind, calc.suffix),
                                        AssetFileUrl(calc.kind, calc.suffix),
                                        calc.dataType)]
    /\ UNCHANGED playback

\* Every call followed.
Calls ==
    BuildSegmentsCalls \cup StartFromWaypointsCalls \cup StartCalls \cup FlatCalls
        \cup SampleCurveCalls \cup SampleCountCalls
        \cup ParseJsonCalls \cup ParseCsvCalls \cup FormatCalls
        \cup PlayBuiltCalls \cup CurveUpdateCalls \cup CatmullRomCalls
        \cup StepCountsCalls \cup ShortCalls

\* The building functions on their own: no script is playing.
CalcInit ==
    /\ script = "CameraMover"
    /\ loop = FALSE
    /\ autoStart = FALSE
    /\ waypoints = [n |-> 0, pauses |-> <<>>]
    /\ enabled = [x \in InputScripts |-> "absent"]
    /\ _disabledScripts = <<>>
    /\ _tweens = <<>>
    /\ _running = FALSE
    /\ _lastPath = NoPath
    /\ detached = <<>>
    /\ pc = "idle"
    /\ cur = NoCur
    /\ op = Op("init", 0)
    /\ fired = <<>>
    /\ lastApi = "none"
    /\ run = NoRun
    /\ calc \in Calls
    /\ flow = NoFlow
    /\ boot = NoBoot

CalcNext ==
    \/ ApplyBuildSegments
    \/ ApplyStartFromWaypoints
    \/ ApplyStart
    \/ ApplyFlatStartPath
    \/ ApplySampleCurve
    \/ ApplySampleCount
    \/ ApplyParseJson
    \/ ApplyParseCsv
    \/ ApplyFormat
    \/ ApplyPlayBuilt
    \/ ApplyCurveUpdate
    \/ ApplyCatmullRom
    \/ ApplyStepCounts
    \/ ApplyShort

CalcSpec == CalcInit /\ [][CalcNext]_vars

\* ------------------------------------------------------------- the pipeline
\* WaypointFetcher, WaypointPathBuilder, CameraMover and FlowCoordinator on
\* one app.  Loads are delivered and tweens complete between frames; the
\* handlers the four scripts register call nothing back into CameraMover, so
\* a load or a completion runs to its end in one step.
MaxLoads == 2

NoData == [null |-> TRUE]

\* What a parse can return: n positions, a pause or none at each waypoint
\* between the first and the last (these two are stops with or without a
\* pause, part_001 lines 99-100).
Datasets ==
    UNION {{[null |-> FALSE, positions |-> n, pauses |-> ps] :
               ps \in {f \in [1..n -> {0, 1}] : \A i \in {1, n} \cap (1..n) : f[i] = 0}} :
           n \in 0..MaxPos}

\* How a load ends: the fetch fails (rejected, or a status that is not ok),
\* the asset has no data, the parse throws, or it returns a payload (null
\* for a JSON value that is no array or a text without lines).
Outcomes ==
    {[kind |-> k, payload |-> NoData] : k \in {"fetchFailed", "noData", "parseThrows", "parsed"}}
        \cup {[kind |-> "parsed", payload |-> d] : d \in Datasets}

\* FlowCoordinator._showWaypoint(data) that goes on after the UI call.
ShowWaypointFallsThrough(ui, data) ==
    IF ui = "method" THEN <<Ev("uiMethod", data), Ev("ui:waypoint", data)>>
    ELSE <<Ev("ui:waypoint", data)>>

\* FlowCoordinator._showWaypoint(data), lines 363-375: the UI method is
\* called ("uiMethod") when the entity, its script and a function-valued
\* method are there; 'ui:waypoint' is fired otherwise.
ShowWaypoint(ui, data) ==
    IF ui = "method" THEN <<Ev("uiMethod", data)>> ELSE <<Ev("ui:waypoint", data)>>

\* A FlowCoordinator that forwards waypoints only.
ReactionWaypointOnly(c, ev) ==
    IF c.coordinator # "on" THEN <<>>
    ELSE IF ev.name = "camera:waypoint" THEN ShowWaypoint(c.ui, ev.index)
    ELSE <<>>

\* What the listeners FlowCoordinator.initialize() registers (lines 343-352)
\* do with an event, c being the scripts' state: nothing once destroy() has
\* removed them.
Reaction(c, ev) ==
    IF c.coordinator # "on" THEN <<>>
    ELSE IF ev.name = "camera:waypoint" THEN ShowWaypoint(c.ui, ev.index)
    ELSE IF ev.name = "camera:path:complete" THEN <<Ev("flow:complete", 0)>>
    ELSE <<>>

\* app.fire of a CameraMover event: the event, then what FlowCoordinator
\* does with it before fire returns.
Fire(c, ev) == <<ev>> \o Reaction(c, ev)

\* CameraMover as the handlers see it.
Mover == [tweens |-> _tweens, running |-> _running, lastPath |-> _lastPath,
          chain |-> flow.chain, fired |-> <<>>]

\* stop(false), build and launch, as Launch does when no completion is in
\* progress: the old tweens are stopped and dropped.
MoverLaunch(c, m, idxs, kind) ==
    [m EXCEPT !.tweens = NewChain(idxs),
              !.running = (Len(idxs) > 0),
              !.chain = IF Len(idxs) > 0 THEN kind ELSE "none",
              !.fired = @ \o (IF Len(idxs) = 0
                              THEN Fire(c, Ev("camera:path:complete", 0)) ELSE <<>>)]

\* The path buildPath(data) makes: one segment per pair of stops, each with
\* the 5 samples _sampleCurve gives at least.
BuiltPathOf(data) ==
    LET segs == BuildSegments(data.positions, data.pauses)
    IN [segments |-> [i \in DOMAIN segs |-> Segment(5, segs[i].end)]]

\* _boundOnPath, lines 84-89
OnPathReady(c, m, path) ==
    LET m1 == [m EXCEPT !.lastPath = path] IN
    IF ~autoStart THEN m1
    ELSE IF Len(path.segments) = 0 THEN m1
    ELSE MoverLaunch(c, m1, TaskIndices(path.segments), "curve")

\* _boundOnWaypoints of CameraMover, lines 90-95
OnWaypointsLoaded(c, m, data) ==
    IF m.lastPath # NoPath \/ c.movementMode # "linear" THEN m
    ELSE IF ~autoStart THEN m
    ELSE IF data.positions = 0 THEN m
    ELSE MoverLaunch(c, m, HopIndices(data.positions), "linear")

\* _boundOnWaypoints of WaypointPathBuilder, part_001 lines 41-45, and
\* buildPath: 'path:ready' is fired, and handled, inside the handler.
BuilderOnWaypoints(c, m, data) ==
    IF ~c.autoBuild \/ data.positions = 0 THEN m
    ELSE OnPathReady(c, [m EXCEPT !.fired = @ \o <<Ev("path:ready", 0)>>],
                     BuiltPathOf(data))

\* app.fire('waypoints:loaded', payload): the two listeners in the order
\* they were registered.
FireWaypointsLoaded(c, m, data) ==
    LET m0 == [m EXCEPT !.fired = @ \o <<Ev("waypoints:loaded", 0)>>] IN
    IF c.order = "builderFirst"
    THEN OnWaypointsLoaded(c, BuilderOnWaypoints(c, m0, data), data)
    ELSE BuilderOnWaypoints(c, OnWaypointsLoaded(c, m0, data), data)

\* A load whose result is what the scripts had: nothing fired or thrown.
Dropped(c, m) == [data |-> c._data, mover |-> m, thrown |-> FALSE, loaded |-> FALSE]

\* _applyWaypointData that retains the payload before it looks at it.
ApplyWaypointDataStoresFirst(c, m, outcome) ==
    IF outcome.kind # "parsed" THEN Dropped(c, m)
    ELSE IF outcome.payload = NoData \/ outcome.payload.positions = 0
    THEN [Dropped(c, m) EXCEPT !.data = outcome.payload]
    ELSE [data |-> outcome.payload,
          mover |-> FireWaypointsLoaded(c, m, outcome.payload),
          thrown |-> FALSE, loaded |-> TRUE]

\* The end of a load of WaypointFetcher.  A failed fetch is caught at line
\* 88; data == null returns at line 94; an exception of the parse is caught
\* at line 115; a payload without positions returns at line 120; otherwise
\* the payload is retained and 'waypoints:loaded' fired, lines 125-126.
ApplyWaypointData(c, m, outcome) ==
    IF outcome.kind # "parsed" THEN Dropped(c, m)
    ELSE IF outcome.payload = NoData \/ outcome.payload.positions = 0
    THEN Dropped(c, m)
    ELSE [data |-> outcome.payload,
          mover |-> FireWaypointsLoaded(c, m, outcome.payload),
          thrown |-> FALSE, loaded |-> TRUE]

\* The variables of the pipeline that belong to CameraMover.
MoverApply(m) ==
    /\ _tweens' = m.tweens
    /\ _running' = m.running
    /\ _lastPath' = m.lastPath
    /\ fired' = m.fired

\* What the pipeline leaves alone.
aside == <<config, calc, boot, pathVars, detached, pc, cur, lastApi, run>>

\* WaypointFetcher.load(): a fetch or an asset load is under way.
Load ==
    /\ flow.attached
    /\ flow.loads < MaxLoads
    /\ flow' = [flow EXCEPT !.loads = @ + 1, !.requests = @ + 1]
    /\ op' = Op("load", 0)
    /\ fired' = <<>>
    /\ UNCHANGED <<aside, _tweens, _running, _lastPath>>

\* A load under way ends.
Deliver(outcome) ==
    /\ flow.attached
    /\ flow.requests > 0
    /\ LET r == ApplyWaypointData(flow, Mover, outcome)
       IN /\ MoverApply(r.mover)
          /\ flow' = [flow EXCEPT !.requests = @ - 1,
                                  !._data = r.data,
                                  !.thrown = r.thrown,
                                  !.chain = r.mover.chain,
                                  !.log = IF r.loaded THEN r.mover.fired ELSE @]
    /\ op' = Op("deliver", outcome)
    /\ UNCHANGED aside

\* The playing tween i of CameraMover reaches its end: 'camera:waypoint',
\* then _onSequenceComplete() if it is the last (loop is off: _finish()),
\* then the tween chained to it is started.
FlowTweenComplete(i) ==
    /\ flow.attached
    /\ i \in ActiveIn(_tweens)
    /\ LET done == [_tweens EXCEPT ![i].st = "completed"]
           ends == _tweens[i].seq
       IN /\ _tweens' = IF i < Len(done) THEN [done EXCEPT ![i + 1] = TweenStart(@)]
                        ELSE done
          /\ _running' = IF ends THEN FALSE ELSE _running
          /\ fired' = Fire(flow, Ev("camera:waypoint", _tweens[i].index))
                      \o (IF ends THEN Fire(flow, Ev("camera:path:complete", 0))
                          ELSE <<>>)
    /\ flow' = [flow EXCEPT !.log = @ \o fired']
    /\ op' = Op("complete", 0)
    /\ UNCHANGED <<aside, _lastPath>>

\* FlowCoordinator.destroy(), lines 354-361
DestroyCoordinator ==
    /\ flow.attached
    /\ flow.coordinator = "on"
    /\ flow' = [flow EXCEPT !.coordinator = "destroyed"]
    /\ op' = Op("destroy", 0)
    /\ fired' = <<>>
    /\ UNCHANGED <<aside, _tweens, _running, _lastPath>>

\* The four scripts initialized, nothing loaded yet; loop is off.
FlowInit ==
    /\ script = "CameraMover"
    /\ loop = FALSE
    /\ autoStart \in BOOLEAN
    /\ waypoints = [n |-> 0, pauses |-> <<>>]
    /\ enabled = [x \in InputScripts |-> "absent"]
    /\ _disabledScripts = <<>>
    /\ _tweens = <<>>
    /\ _running = FALSE
    /\ _lastPath = NoPath
    /\ detached = <<>>
    /\ pc = "idle"
    /\ cur = NoCur
    /\ op = Op("init", 0)
    /\ fired = <<>>
    /\ lastApi = "none"
    /\ run = NoRun
    /\ calc = NoCalc
    /\ flow \in [attached : {TRUE},
                 movementMode : {"curve", "linear"},
                 autoBuild : BOOLEAN,
                 order : {"builderFirst", "moverFirst"},
                 ui : {"method", "noScript", "notFunction"},
                 coordinator : {"on"},
                 _data : {NoData},
                 loads : {0}, requests : {0},
                 thrown : {FALSE},
                 chain : {"none"},
                 log : {<<>>}]
    /\ boot = NoBoot

FlowNext ==
    \/ Load
    \/ \E outcome \in Outcomes : Deliver(outcome)
    \/ \E i \in 1..MaxPos : FlowTweenComplete(i)
    \/ DestroyCoordinator

FlowSpec == FlowInit /\ [][FlowNext]_vars

\* The tween manager updates every playing tween each frame: a playing
\* tween reaches its end.
FlowLiveSpec == FlowSpec /\ WF_vars(\E i \in 1..MaxPos : FlowTweenComplete(i))

\* ------------------------------------------- CameraWaypointPath: initialize
\* The data source configured: a URL, an asset still to be loaded, an asset
\* whose resource is there already, or none.
Sources == {"none", "url", "asset", "assetReady"}

\* Nothing is handed to _applyWaypointData.
NoOutcome == [kind |-> "none", data |-> [n |-> 0, pauses |-> <<>>]]

\* How a load of CameraWaypointPath ends: the fetch fails, the asset has no
\* data, the parse throws, or it stores the waypoints it parsed.
BootOutcomes ==
    {[kind |-> k, data |-> NoOutcome.data] : k \in {"fetchFailed", "noData", "parseThrows"}}
        \cup {[kind |-> "parsed", data |-> w] : w \in WaypointSets}

\* _applyWaypointData(data, asset, sourceUrl), lines 559-593, run with the
\* waypoint data w0 and this._pendingAutoStart = pending: null data is
\* dropped; else the parse stores its waypoints (none when it throws) and a
\* pending auto start calls startPath().
BootApply(w0, pending, outcome) ==
    LET w1 == IF outcome.kind = "parsed" THEN outcome.data ELSE w0
    IN IF outcome.kind \in {"fetchFailed", "noData"}
       THEN [waypoints |-> w0, pending |-> pending, started |-> 0,
             phase |-> "dropped", path |-> PathSame(_tweens)]
       ELSE [waypoints |-> w1, pending |-> FALSE,
             started |-> IF pending THEN 1 ELSE 0,
             phase |-> IF outcome.kind = "parsed" THEN "applied" ELSE "unparsed",
             path |-> IF pending THEN StartPathWith(w1, _tweens) ELSE PathSame(_tweens)]

\* initialize(), lines 184-208: the data source is set up, an asset whose
\* resource is there is applied at once; then, with autoStart, the start is
\* left to the load when there is a source and made now when there is none.
Initialize(outcome) ==
    /\ script \in PathScripts
    /\ boot.phase = "created"
    /\ IF boot.source = "assetReady"
       THEN outcome.kind \in {"parseThrows", "parsed"}
       ELSE outcome = NoOutcome
    /\ LET a == IF boot.source = "assetReady"
                THEN BootApply(waypoints, FALSE, outcome)
                ELSE [waypoints |-> waypoints, pending |-> FALSE, started |-> 0,
                      phase |-> IF boot.source = "none" THEN "idle" ELSE "loading",
                      path |-> PathSame(_tweens)]
           startsNow == autoStart /\ boot.source = "none"
       IN /\ waypoints' = a.waypoints
          /\ PathApply(IF startsNow THEN StartPathWith(a.waypoints, _tweens) ELSE a.path)
          /\ boot' = [boot EXCEPT !.phase = a.phase,
                                  !.pending = autoStart /\ boot.source # "none",
                                  !.starts = @ + a.started + (IF startsNow THEN 1 ELSE 0)]
    /\ op' = Op("initialize", outcome)
    /\ fired' = <<>>
    /\ UNCHANGED <<config, calc, flow, _lastPath, pc, cur, lastApi, run>>

\* The load under way ends: the 'load' of the asset or the fetch of the URL.
Arrive(outcome) ==
    /\ script \in PathScripts
    /\ boot.phase = "loading"
    /\ outcome \in BootOutcomes
    /\ outcome.kind = "fetchFailed" => boot.source = "url"
    /\ outcome.kind = "noData" => boot.source = "asset"
    /\ LET a == BootApply(waypoints, boot.pending, outcome)
       IN /\ waypoints' = a.waypoints
          /\ PathApply(a.path)
          /\ boot' = [boot EXCEPT !.phase = a.phase,
                                  !.pending = a.pending,
                                  !.starts = @ + a.started]
    /\ op' = Op("arrive", outcome)
    /\ fired' = <<>>
    /\ UNCHANGED <<config, calc, flow, _lastPath, pc, cur, lastApi, run>>

\* A CameraWaypointPath script created, initialize() not yet called: no
\* waypoint, no tween.
BootInit ==
    /\ script \in PathScripts
    /\ loop \in BOOLEAN
    /\ autoStart \in BOOLEAN
    /\ waypoints = [n |-> 0, pauses |-> <<>>]
    /\ enabled \in [InputScripts -> {"on", "absent"}]
    /\ _disabledScripts = <<>>
    /\ _tweens = <<>>
    /\ _running = FALSE
    /\ _lastPath = NoPath
    /\ detached = <<>>
    /\ pc = "idle"
    /\ cur = NoCur
    /\ op = Op("init", 0)
    /\ fired = <<>>
    /\ lastApi = "none"
    /\ run = NoRun
    /\ calc = NoCalc
    /\ flow = NoFlow
    /\ boot \in [phase : {"created"}, source : Sources, pending : {FALSE}, starts : {0}]

BootNext ==
    \/ \E outcome \in BootOutcomes \cup {NoOutcome} : Initialize(outcome)
    \/ \E outcome \in BootOutcomes : Arrive(outcome)
    \/ \E i \in 1..(2 * MaxPos) : PathTweenComplete(i)

BootSpec == BootInit /\ [][BootNext]_vars

TypeOK ==
    /\ Len(detached) <= MaxDetached
    /\ \A d \in DOMAIN detached : detached[d] # <<>>
    /\ pc = "listener" <=> cur # NoCur

\* ------------------------------------------------------------------ claims
\* Every chain of tweens there is: the controller's list and the detached ones.
Chains == {_tweens} \cup {detached[d] : d \in DOMAIN detached}

\* C1: in every reachable state at most one tween of the controller is
\* playing, so the target transform has at most one writer.
C1_AtMostOneActive == Cardinality(Active) <= 1

\* C2: once stop has returned, no 'camera:waypoint' is fired until the next
\* start or startFromWaypoints call.
C2_NoWaypointAfterStop ==
    lastApi = "stop" => Count("camera:waypoint", fired) = 0

\* C3: once stop has returned, the stopped chain fires no
\* 'camera:path:complete' and launches no loop restart: the controller stays
\* idle with an empty list.
C3_NoStaleCompletion ==
    lastApi = "stop" =>
        /\ Count("camera:path:complete", fired) = 0
        /\ ~_running
        /\ _tweens = <<>>

\* C4: after a start call, only tweens of the newly built list play: no tween
\* of a chain the call cancelled is playing.
C4_OnlyNewChainActs ==
    lastApi = "start" => \A d \in DOMAIN detached : ActiveIn(detached[d]) = {}

\* C5: an uninterrupted non-looping run of CameraMover over a chain of k
\* tweens fires the k 'camera:waypoint' indices of the chain in chain order,
\* strictly increasing, and 'camera:path:complete' exactly once, after the
\* k-th waypoint notification and never before; when nothing plays any more
\* all k have fired.
C5_RunNotifications ==
    (run.clean /\ ~loop) =>
        /\ Len(run.wp) <= Len(run.idxs)
        /\ run.wp = SubSeq(run.idxs, 1, Len(run.wp))
        /\ \A i, j \in DOMAIN run.wp : i < j => run.wp[i] < run.wp[j]
        /\ run.done = IF Len(run.wp) = Len(run.idxs) /\ pc = "idle" THEN 1 ELSE 0
        /\ (Active = {} /\ pc = "idle") => Len(run.wp) = Len(run.idxs)

\* C5 witness: a non-looping CameraMover run over two tweens has fired both
\* waypoint notifications and its one 'camera:path:complete'.
C5_Witness ==
    /\ script = "CameraMover"
    /\ run.clean /\ ~loop
    /\ Len(run.idxs) = 2 /\ Len(run.wp) = 2
    /\ run.done = 1

\* C6: the tweens of a chain play in list order: a tween other than the first
\* has been started only if the one before it has completed, the first tween
\* of the list is the one start() started, and no tween is started twice.
C6_StrictOrder ==
    /\ \A c \in Chains : \A i \in DOMAIN c :
          /\ c[i].starts <= 1
          /\ (i > 1 /\ c[i].starts > 0) => c[i - 1].st = "completed"
    /\ _tweens # <<>> => _tweens[1].starts = 1

\* C6 witness: the second tween of the list plays, the first having completed.
C6_Witness ==
    /\ Len(_tweens) >= 2
    /\ _tweens[1].st = "completed"
    /\ _tweens[2].st = "active"

\* C7: with loop enabled, a run never fires 'camera:path:complete', and
\* whenever a pass has ended the list is a new pass over the same source
\* with a tween playing.
C7_LoopRestarts ==
    (run.clean /\ loop /\ Len(run.idxs) > 0) =>
        /\ run.done = 0
        /\ pc = "idle" => (Indices(_tweens) = run.idxs /\ ActiveIn(_tweens) # {})

\* The last step was a start or startFromWaypoints call of CameraMover whose
\* input yields no tween.
NoTaskInput ==
    /\ script = "CameraMover"
    /\ \/ op.name = "start" /\ TaskIndices(op.arg.segments) = <<>>
       \/ op.name = "startFromWaypoints" /\ op.arg.positions < 2

\* ... and that input has no segment, or no position, at all.
EmptyInput ==
    \/ op.name = "start" /\ Len(op.arg.segments) = 0
    \/ op.name = "startFromWaypoints" /\ op.arg.positions = 0

\* C8 as stated: whenever the input yields no tween, the call fires
\* 'camera:path:complete' exactly once and starts no tween.
C8_NoTaskCompletes ==
    NoTaskInput => (Count("camera:path:complete", fired) = 1 /\ _tweens = <<>>)

\* C9: a step fires 'camera:mover:stopped' once if it is a stop(true) call of
\* CameraMover made from outside, and not at all otherwise (a completion, a
\* loop restart, a start cancelling the list, stop(false)).
C9_StoppedEvent ==
    Count("camera:mover:stopped", fired)
        = IF script = "CameraMover" /\ op.name = "stop" /\ op.arg THEN 1 ELSE 0

\* C9 witness: stop(true) has just cancelled a running list from inside a
\* listener and fired the event.
C9_Witness ==
    /\ script = "CameraMover"
    /\ op.name = "stop" /\ op.arg
    /\ pc = "listener"
    /\ Count("camera:mover:stopped", fired) = 1

\* C10: when stop (stopPath) returns the list is empty, the running flag is
\* false and every tween that was in the list is cancelled: none of them
\* plays, and what the completion in progress still holds of the list is
\* completed or stopped; a stop made when the list is already empty and the
\* flag false changes none of the playback state.
C10_StopPost ==
    [][op'.name = "stop" =>
        /\ _tweens' = <<>>
        /\ ~_running'
        /\ Cardinality(Active') = Cardinality(Active) - Cardinality(ActiveIn(_tweens))
        /\ \A d \in DOMAIN detached' : d > Len(detached) =>
              \A i \in DOMAIN detached'[d] :
                  detached'[d][i].st \in {"completed", "stopped"}
        /\ (_tweens = <<>> /\ ~_running) =>
              UNCHANGED <<_tweens, _running, detached, _lastPath, pc, cur>>]_vars

\* C10 witness: stop has returned from inside a listener; the tween chained
\* to the completing one, which was in the list, is stopped.
C10_Witness ==
    /\ op.name = "stop"
    /\ _tweens = <<>> /\ ~_running
    /\ pc = "listener" /\ cur.chain > 0
    /\ Len(detached[cur.chain]) >= 2
    /\ detached[cur.chain][2].st = "stopped"
\* The stops of the last _buildSegments call, from its inputs.
CalcStops ==
    {0, calc.length - 1}
        \cup {i \in 1..(calc.length - 2) :
                 i + 1 <= Len(calc.pauses) /\ calc.pauses[i + 1] > 0}

\* C11: for positions of length L >= 2 and any pauses array, _buildSegments
\* returns (number of distinct stops - 1) segments in ascending order: the
\* first starts at 0, the last ends at L - 1, every segment has end > start,
\* each starts where the one before ends, and the boundaries are exactly the
\* stops {0, L - 1} and the indices with a positive pause; with no positive
\* pause it is the one segment [0, L - 1].
C11_SegmentsPartition ==
    (calc.fn = "buildSegments" /\ calc.done /\ calc.length >= 2) =>
        LET segs == calc.out
            last == calc.length - 1
        IN /\ Len(segs) = Cardinality(CalcStops) - 1
           /\ segs[1].start = 0
           /\ segs[Len(segs)].end = last
           /\ \A i \in DOMAIN segs : segs[i].end > segs[i].start
           /\ \A i \in DOMAIN segs : i > 1 => segs[i].start = segs[i - 1].end
           /\ {segs[i].start : i \in DOMAIN segs} \cup {last} = CalcStops
           /\ (CalcStops = {0, last}) =>
                 (Len(segs) = 1 /\ segs[1].start = 0 /\ segs[1].end = last)

\* C11 witness: 4 positions with pauses at both interior waypoints give 3
\* segments.
C11_Witness ==
    /\ calc.fn = "buildSegments" /\ calc.done
    /\ calc.length = 4
    /\ calc.pauses = <<0, 1, 1, 0>>
    /\ Len(calc.out) = 3
\* Waypoint data with the positions ps, no rotation and no pause.
PlainData(ps, minDuration) ==
    [positions |-> ps, rotations |-> <<>>, pauses |-> <<>>, useRotations |-> TRUE,
     durationPerUnit |-> 1, minDuration |-> minDuration]

\* C12: for N >= 2 positions startFromWaypoints builds exactly N - 1 hop
\* tasks, hop i going from positions[i - 1] to positions[i] in
\* max(distance * durationPerUnit, minDuration) and reporting index i; an
\* uninterrupted non-looping run over hops 1..N-1 fires 'camera:waypoint'
\* with indices 1, 2, ..., N - 1 in that order and then
\* 'camera:path:complete', once.
C12_LinearRun ==
    /\ (script = "CameraMover" /\ op.name = "startFromWaypoints"
            /\ op.arg.positions >= 2) =>
          LET n == op.arg.positions
          IN /\ Indices(_tweens) = [i \in 1..(n - 1) |-> i]
             /\ \A ps \in PositionLists(n), md \in {1, 20} :
                   LET hops == LinearHops(PlainData(ps, md), 1, EntityRot)
                   IN /\ Len(hops) = n - 1
                      /\ \A i \in 1..(n - 1) :
                            /\ hops[i].index = i
                            /\ hops[i].from = ps[i]
                            /\ hops[i].to = ps[i + 1]
                            /\ hops[i].duration = Max(Distance(ps[i], ps[i + 1]) * 1, md)
    /\ (run.clean /\ ~loop /\ Len(run.idxs) >= 1
            /\ run.idxs = [i \in 1..Len(run.idxs) |-> i]) =>
          /\ run.wp = [i \in 1..Len(run.wp) |-> i]
          /\ Len(run.wp) <= Len(run.idxs)
          /\ run.done = IF Len(run.wp) = Len(run.idxs) /\ pc = "idle" THEN 1 ELSE 0

\* C12 witness: the 3-point scenario (0,0,0), (10,0,0), (10,0,10) with
\* durationPerUnit = minDuration = 0.1: startFromWaypoints has built two
\* hops, of 10 tenths each.
C12_Witness ==
    /\ script = "CameraMover"
    /\ op.name = "startFromWaypoints"
    /\ op.arg.positions = 3
    /\ Indices(_tweens) = <<1, 2>>
    /\ LET hops == LinearHops(PlainData(<<<<0, 0>>, <<10, 0>>, <<10, 10>>>>, 1), 1, EntityRot)
       IN hops[1].duration = 10 /\ hops[2].duration = 10

\* C13: in the chain of a linear-mode builder, every hop whose target
\* waypoint has a positive pause is followed at once by a wait task of that
\* pause, and a hop whose target has pause 0 is followed by no wait task;
\* for startFromWaypoints and for startPath of the flat CameraWaypointPath.
C13_WaitAfterPausedHop ==
    /\ (calc.fn = "startFromWaypoints" /\ calc.done) =>
          \A k \in DOMAIN calc.out :
              calc.out[k].kind = "move" =>
                  LET pause == calc.pauses[calc.out[k].index + 1]
                      waits == k + 1 \in DOMAIN calc.out /\ calc.out[k + 1].kind = "wait"
                  IN IF pause > 0 THEN waits /\ calc.out[k + 1].delay = pause
                     ELSE ~waits
    /\ (calc.fn = "startPath:flat" /\ calc.done) =>
          \A k \in DOMAIN calc.out :
              calc.out[k].kind = "move" =>
                  LET pause == calc.waypoints.pauses[calc.out[k].index + 1]
                      waits == k + 1 \in DOMAIN calc.out /\ calc.out[k + 1].kind = "wait"
                  IN IF pause > 0 THEN waits /\ calc.out[k + 1].delay = pause
                     ELSE ~waits
RECURSIVE CarriedAfter(_, _, _, _)
\* The orientation carried after the first j segments when every segment,
\* built or skipped, advances it to the resolved rotation of its end waypoint.
CarriedAfter(j, segs, rotations, useRotations) ==
    IF j = 0 THEN EntityRot
    ELSE ResolveRotation(rotations, segs[j].endIndex,
                         CarriedAfter(j - 1, segs, rotations, useRotations),
                         useRotations)

\* C14: a segment skipped for having fewer than 2 samples gets no task but
\* still advances the carried orientation to the resolved rotation of its end
\* waypoint: every task start(path) builds starts from the orientation
\* resolved for the end waypoint of the segment before its own, skipped or
\* not.
C14_SkipAdvancesCarry ==
    (calc.fn = "start" /\ calc.done) =>
        /\ Len(calc.out) = Cardinality({j \in DOMAIN calc.segments :
                                           calc.segments[j].samples >= 2})
        /\ \A k \in DOMAIN calc.out :
              LET j == calc.out[k].index
              IN /\ calc.segments[j].samples >= 2
                 /\ calc.out[k].fromRot
                      = CarriedAfter(j - 1, calc.segments, calc.rotations,
                                     calc.useRotations)
\* The orientation an explicit rotation entry stands for.
Explicit(entry) ==
    [q |-> IF entry.kind = "quat" THEN "quat" ELSE "fromEuler", v |-> entry.v]

\* C15: for every task CameraMover builds (start or startFromWaypoints), the
\* end orientation is the explicit rotation at the task's end waypoint index
\* when useRotations is true and that rotation is present, and the carried
\* orientation otherwise; each task starts from the end orientation of the
\* task before it, the first from the target's orientation at start time;
\* the notification carries the end orientation, which with useRotations
\* false is the target's orientation at start time for every task.
C15_TaskOrientations ==
    (calc.fn \in {"start", "startFromWaypoints"} /\ calc.done) =>
        \A k \in DOMAIN calc.out :
            LET task == calc.out[k]
                entry == RotationAt(calc.rotations, task.index)
            IN /\ task.fromRot = IF k = 1 THEN EntityRot ELSE calc.out[k - 1].toRot
               /\ task.toRot = IF calc.useRotations /\ entry.kind # "none"
                                THEN Explicit(entry) ELSE task.fromRot
               /\ task.rotation = task.toRot
               /\ ~calc.useRotations => task.rotation = EntityRot

\* C15 witness: start has built two tasks with useRotations on; the first
\* ends at the Euler rotation of waypoint 1, the second, whose waypoint has
\* no rotation, starts from it and keeps it.
C15_Witness ==
    /\ calc.fn = "start" /\ calc.done /\ calc.useRotations
    /\ Len(calc.out) = 2
    /\ calc.out[1].toRot = [q |-> "fromEuler", v |-> 1]
    /\ calc.out[2].fromRot = [q |-> "fromEuler", v |-> 1]
    /\ calc.out[2].toRot = [q |-> "fromEuler", v |-> 1]
\* The place in the samples of the first sample of sub-segment i.
SampleOffset(i) == Sum(SubSeq(calc.out.steps, 1, i - 1)) + 1

\* C16: for a chain of >= 2 points given to _sampleCurve, with or without
\* prevPoint / nextPoint, the first sample equals points[0] and the last
\* equals the last point exactly, and every waypoint of the chain is the
\* first sample of its sub-segment.
C16_ExactWaypoints ==
    (calc.fn = "sampleCurve" /\ calc.done) =>
        LET samples == calc.out.samples
            n == Len(calc.points)
        IN /\ samples[1] = calc.points[1]
           /\ samples[Len(samples)] = calc.points[n]
           /\ \A i \in 1..(n - 1) : samples[SampleOffset(i)] = calc.points[i]

\* The lengths with sub-segment k one unit longer.
Lengthened(lengths, k) == [lengths EXCEPT ![k] = @ + 1]

\* C17: the number of samples of a segment does not decrease when
\* sampleDensity grows, nor when the chain gets longer by lengthening one of
\* its sub-segments, the other parameters being the same.
C17_SampleCountMonotone ==
    (calc.fn = "sampleCount" /\ calc.done) =>
        /\ TotalSamples(calc.lengths, calc.sampleDensity + 1, calc.minSamples) >= calc.out
        /\ \A k \in DOMAIN calc.lengths :
              TotalSamples(Lengthened(calc.lengths, k), calc.sampleDensity,
                           calc.minSamples) >= calc.out

\* C18: for a chain of exactly 2 distinct points with no prevPoint and no
\* nextPoint, both synthesized control points are 2 away from their end
\* point and outside the chain: the start one on the side of points[0] away
\* from points[1], the end one on the side of points[1] away from points[0].
C18_ControlPointsOutside ==
    (calc.fn = "sampleCurve" /\ calc.done /\ Len(calc.points) = 2
        /\ ~calc.prevPoint.has /\ ~calc.nextPoint.has) =>
        LET a == calc.points[1]
            b == calc.points[2]
        IN /\ Abs(calc.out.startExtra - a) = 2
           /\ Abs(calc.out.endExtra - b) = 2
           /\ (calc.out.startExtra - a) * (b - a) < 0
           /\ (calc.out.endExtra - b) * (b - a) > 0
\* The scripts recorded in this._disabledScripts.
Recorded == {_disabledScripts[i] : i \in DOMAIN _disabledScripts}

\* The step restarts a running CameraWaypointPath: startPath() is called
\* while running, or the last tween completes with loop on.
PathRestart ==
    /\ script \in PathScripts
    /\ _running /\ waypoints.n > 0
    /\ \/ op'.name = "start"
       \/ op'.name = "complete" /\ loop /\ _tweens' # <<>> /\ _tweens'[1].st = "active"

\* C19: when startPath runs while the controller is running (called from
\* outside or by a loop restart), no suspended script is enabled once the
\* old chain is cancelled nor when the call returns, and the record of
\* suspended scripts is afterwards what it was: the scripts the first start
\* suspended, each once.
C19_RestartKeepsSuspended ==
    [][PathRestart =>
        /\ StopPathCall(PathCancelRestore, _tweens).enabled = enabled
        /\ \A x \in InputScripts : enabled[x] = "off" => enabled'[x] = "off"
        /\ _disabledScripts' = _disabledScripts
        /\ Cardinality(Recorded') = Len(_disabledScripts')
        /\ _running']_vars

\* C19 witness: a loop restart has relaunched the chain; script 1, which the
\* first start suspended, is still disabled and recorded once.
C19_Witness ==
    /\ script \in PathScripts
    /\ loop /\ _running
    /\ op.name = "complete"
    /\ _tweens # <<>> /\ _tweens[1].st = "active"
    /\ _disabledScripts = <<1>>
    /\ enabled[1] = "off"

\* What a step of a CameraWaypointPath does to the input scripts.
InputStep ==
    /\ _running' => \A x \in InputScripts : enabled'[x] # "on"
    /\ \A x \in InputScripts :
          (enabled[x] = "off" /\ x \notin Recorded) => enabled'[x] = "off"
    /\ (\/ op'.name = "complete" /\ _running /\ ~_running'
        \/ op'.name = "stop" /\ op'.arg) =>
          (/\ _disabledScripts' = <<>>
           /\ \A x \in Recorded : enabled'[x] = "on")

\* C20: when a non-looping CameraWaypointPath run completes naturally or
\* stopPath(true) is called, every recorded script is enabled again and the
\* record is empty; a script that is disabled without being recorded (it was
\* disabled before playback) is never enabled; and while the controller is
\* running no configured script that is there is enabled.
C20_InputRestored == [][(script \in PathScripts) => InputStep]_vars

\* C20 witness: a non-looping run has completed; script 1, suspended by
\* playback, is enabled again, script 2, disabled before playback, is not,
\* and the record is empty.
C20_Witness ==
    /\ script \in PathScripts
    /\ ~loop /\ ~_running
    /\ op.name = "complete"
    /\ enabled = <<"on", "off">>
    /\ _disabledScripts = <<>>
\* C21: after any parse of a CSV or JSON payload the dataset has as many
\* pauses as positions and at most as many rotations as positions.
C21_DatasetLengths ==
    (calc.fn \in {"parseJson", "parseCsv"} /\ calc.done /\ ~calc.out.null) =>
        /\ Len(calc.out.positions) = Len(calc.out.pauses)
        /\ Len(calc.out.rotations) <= Len(calc.out.positions)

\* A line the documented rule accepts: at least six fields, all numeric.
Accepted(line) == Len(line) >= 6 /\ \A i \in DOMAIN line : line[i].kind = "num"

\* The waypoint rows of a parsed dataset.
RowsOf(out) ==
    IF out.null THEN <<>>
    ELSE [i \in DOMAIN out.positions |->
            <<out.positions[i], out.rotations[i], out.pauses[i]>>]

\* The waypoint rows the documented rule gives for a text.
ExpectedRows(text) ==
    LET lines == SelectSeq(text, LAMBDA l : ~Blank(l) /\ Accepted(l)) IN
    [i \in DOMAIN lines |->
        <<<<lines[i][1].val, lines[i][2].val, lines[i][3].val>>,
          <<lines[i][4].val, lines[i][5].val, lines[i][6].val>>,
          IF Len(lines[i]) >= 7 THEN lines[i][7].val ELSE 0>>]

\* C22: _parseCsv keeps exactly the non-blank lines of at least six fields
\* that are all numeric, in order, each as position = fields 1-3, rotation =
\* fields 4-6 and pause = field 7 (0 when absent); other lines are dropped.
C22_CsvLines ==
    (calc.fn = "parseCsv" /\ calc.done) => RowsOf(calc.out) = ExpectedRows(calc.text)

\* C23: with waypointDataFormat 'auto' the format is chosen from the ending
\* of the source's URL or asset file (.csv/.txt -> CSV, .json -> JSON), for
\* URL sources and asset sources alike, and from the payload type (string or
\* binary -> CSV, object -> JSON) only when there is no such ending.
C23_AutoFormat ==
    (calc.fn = "format" /\ calc.done /\ calc.format = "auto") =>
        calc.out = IF Lower(calc.suffix) \in {".csv", ".txt"} THEN "csv"
                   ELSE IF Lower(calc.suffix) = ".json" THEN "json"
                   ELSE IF calc.dataType \in {"string", "binary"} THEN "csv"
                   ELSE "json"

\* The orientation the k-th built segment ends with: the waypoint's rotation
\* when rotations are used and the waypoint has one, else the orientation
\* the segment before it ended with (the entity's for the first).
RECURSIVE EndOrientation(_, _)
EndOrientation(c, k) ==
    LET r == RotationAt(c.rotations, c.out.built[k].endIndex) IN
    IF c.useRotations /\ r.kind # "none" THEN ToQuat(r)
    ELSE IF k = 1 THEN EntityRot ELSE EndOrientation(c, k - 1)

\* C28: each 'camera:waypoint' of CameraMover.start for a path built by
\* buildPath carries the segment's endIndex, the waypoint positions[endIndex]
\* itself, and the segment's resolved end orientation.
C28_WaypointEventData ==
    (calc.fn = "playBuilt" /\ calc.done) =>
        /\ Len(calc.out.events) = Len(calc.out.built)
        /\ \A k \in DOMAIN calc.out.events :
              /\ calc.out.events[k].index = calc.out.built[k].endIndex
              /\ calc.out.events[k].position
                    = calc.positions[calc.out.built[k].endIndex + 1]
              /\ calc.out.events[k].rotation = EndOrientation(calc, k)

\* C28 witness: a path of two segments split at a pause has been played;
\* the first event carries an explicit rotation and the samples before the
\* end of the first segment are not the waypoint.
C28_Witness ==
    /\ calc.fn = "playBuilt" /\ calc.done
    /\ Len(calc.out.events) = 2
    /\ calc.useRotations
    /\ calc.out.events[1].rotation.q = "fromEuler"
    /\ calc.out.events[1].index = 1
    /\ calc.out.built[1].samples[Len(calc.out.built[1].samples) - 1]
          # calc.out.events[1].position

\* C29: for every progress t in [0,1] and every list of n >= 2 samples the
\* curve task's update reads samples only at indices within 0..n-1, the
\* lower one floor(min(t,1) * (n-1)) and the upper one min(lower + 1, n-1);
\* at t = 0 it writes samples[0] and at t = 1 samples[n-1].
C29_CurveUpdateInRange ==
    (calc.fn = "curveUpdate" /\ calc.done) =>
        LET n == Len(calc.samples)
            lower == (calc.t[1] * (n - 1)) \div calc.t[2]
        IN /\ calc.out.lower = lower
           /\ calc.out.upper = IF lower + 1 < n - 1 THEN lower + 1 ELSE n - 1
           /\ calc.out.lower \in 0..(n - 1) /\ calc.out.upper \in 0..(n - 1)
           /\ ~calc.out.thrown
           /\ calc.t[1] = 0 => calc.out.pos = calc.samples[1]
           /\ calc.t[1] = calc.t[2] => calc.out.pos = calc.samples[n]

\* C29 witness: the update at t = 1 of a list of three samples has read the
\* last sample twice and written it.
C29_Witness ==
    /\ calc.fn = "curveUpdate" /\ calc.done
    /\ Len(calc.samples) = 3 /\ calc.t[1] = calc.t[2]
    /\ calc.out.lower = 2 /\ calc.out.upper = 2
    /\ calc.samples[2] # calc.samples[3]
    /\ calc.out.pos = calc.samples[3]

\* The weight n / (steps * d) of a blend, as a fraction.
Weight(n, steps, d) == <<n, steps * d>>

\* The non-uniform Catmull-Rom blend of p0..p3 at t = j / steps on the
\* knots of their distances, every weight used as it is.
StandardBlend(p0, p1, p2, p3, j, steps) ==
    LET t1 == Knot(p0, p1)
        t2 == t1 + Knot(p1, p2)
        t3 == t2 + Knot(p2, p3)
        tt == t1 * steps + (t2 - t1) * j
        A1 == VecLerp(p0, p1, Weight(tt, steps, t1))
        A2 == VecLerp(p1, p2, Weight(tt - t1 * steps, steps, t2 - t1))
        A3 == VecLerp(p2, p3, Weight(tt - t2 * steps, steps, t3 - t2))
        B1 == VecLerp(A1, A2, Weight(tt, steps, t2))
        B2 == VecLerp(A2, A3, Weight(tt - t1 * steps, steps, t3 - t1))
    IN VecLerp(B1, B2, Weight(tt - t1 * steps, steps, t2 - t1))

\* C30: for t in [0,1] and control points with non-degenerate knots,
\* _catmullRom returns the standard non-uniform Catmull-Rom blend on the
\* same knots, whose interpolations A1, A2, A3, B1, B2 and the final one use
\* the knot-ratio weights unclamped.
C30_StandardCatmullRom ==
    (calc.fn = "catmullRom" /\ calc.done) =>
        calc.out = StandardBlend(calc.p[1], calc.p[2], calc.p[3], calc.p[4],
                                 calc.j, TDen)

\* A load that ends in a data error: the fetch failed, the payload did not
\* parse, or the parse gave no position.
DataError(outcome) ==
    \/ outcome.kind # "parsed"
    \/ outcome.payload = NoData
    \/ outcome.payload.positions = 0

\* The step delivers a load of WaypointFetcher that ends in a data error.
ErrorDelivered == flow.attached /\ op'.name = "deliver" /\ DataError(op'.arg)

\* C24: on a data error of WaypointFetcher no exception leaves the script,
\* no event is fired ('waypoints:loaded' included), the retained _data is
\* what it was, no new load is started, and the tweens and the running flag
\* of CameraMover are what they were.
C24_DataErrorDropped ==
    [][ErrorDelivered =>
        /\ ~flow'.thrown
        /\ fired' = <<>>
        /\ flow'._data = flow._data
        /\ flow'.loads = flow.loads /\ flow'.requests = flow.requests - 1
        /\ _tweens' = _tweens /\ _running' = _running /\ _lastPath' = _lastPath]_vars

\* C24 witness: a second load has ended with a parse that gave no position
\* while the data of the first load is retained and its chain plays.
C24_Witness ==
    /\ flow.attached
    /\ op.name = "deliver" /\ op.arg.kind = "parsed"
    /\ op.arg.payload # NoData /\ op.arg.payload.positions = 0
    /\ flow._data # NoData
    /\ _running /\ fired = <<>>

\* The events of the claimed order among those logged.
FlowEvents(log) ==
    SelectSeq(log, LAMBDA e : e.name \in {"waypoints:loaded", "path:ready",
                                           "camera:waypoint", "camera:path:complete",
                                           "flow:complete"})

\* The events a successful load of data is to lead to, in order.
ExpectedFlow(data) ==
    LET segs == BuildSegments(data.positions, data.pauses)
    IN <<Ev("waypoints:loaded", 0), Ev("path:ready", 0)>>
       \o [i \in DOMAIN segs |-> Ev("camera:waypoint", segs[i].end)]
       \o <<Ev("camera:path:complete", 0), Ev("flow:complete", 0)>>

IsPrefix(s, t) == Len(s) <= Len(t) /\ s = SubSeq(t, 1, Len(s))

\* All four scripts are attached with autoBuild and autoStart, and the last
\* successful load gave at least 2 positions.
FlowLoaded ==
    /\ flow.attached /\ flow.autoBuild /\ autoStart /\ ~loop
    /\ flow.coordinator = "on"
    /\ flow._data # NoData /\ flow._data.positions >= 2

\* C25: with the four scripts attached (autoBuild, autoStart, loop off) a
\* successful load of at least 2 positions leads, in this order, to
\* 'waypoints:loaded', 'path:ready', one 'camera:waypoint' per built
\* segment, and then eventually to one 'camera:path:complete' followed by
\* 'flow:complete', every started tween completing in the end.
C25_EventFlow ==
    /\ [](FlowLoaded => IsPrefix(FlowEvents(flow.log), ExpectedFlow(flow._data)))
    /\ (FlowLoaded ~> (~FlowLoaded \/ FlowEvents(flow.log) = ExpectedFlow(flow._data)))

\* C25 witness: a dataset of three positions with a pause at the middle one
\* has been played to its end: two waypoints, then the two completions.
C25_Witness ==
    /\ FlowLoaded
    /\ flow._data.positions = 3
    /\ Len(BuildSegments(flow._data.positions, flow._data.pauses)) = 2
    /\ FlowEvents(flow.log) = ExpectedFlow(flow._data)

\* C26: with movementMode 'linear' and autoStart, the chain that plays once
\* 'waypoints:loaded' has been dispatched is the linear per-hop chain of
\* startFromWaypoints, in either registration order of the builder's and
\* the mover's listeners.
C26_LinearChainPlays ==
    (/\ flow.attached /\ flow.movementMode = "linear" /\ autoStart
     /\ op.name = "deliver" /\ ~DataError(op.arg)
     /\ op.arg.payload.positions >= 2) =>
        /\ _running
        /\ flow.chain = "linear"
        /\ Indices(_tweens) = HopIndices(op.arg.payload.positions)

\* C27: while FlowCoordinator is initialized and not destroyed, every
\* 'camera:waypoint' is followed at once by exactly one of: a call of the
\* UI method with the event's data (when it resolves) or 'ui:waypoint' with
\* the same data, and there is no other call or 'ui:waypoint'; after
\* destroy there is neither.
C27_OneUiNotification ==
    flow.attached =>
        IF flow.coordinator = "on"
        THEN /\ \A k \in DOMAIN fired :
                  fired[k].name = "camera:waypoint" =>
                      /\ k + 1 \in DOMAIN fired
                      /\ fired[k + 1] = Ev(IF flow.ui = "method" THEN "uiMethod"
                                           ELSE "ui:waypoint", fired[k].index)
             /\ Count("uiMethod", fired) + Count("ui:waypoint", fired)
                   = Count("camera:waypoint", fired)
        ELSE Count("uiMethod", fired) + Count("ui:waypoint", fired) = 0

\* C27 witness: a tween has completed while the UI method resolves: the
\* method was called with the waypoint index and nothing else was fired for
\* the UI.
C27_Witness ==
    /\ flow.attached /\ flow.coordinator = "on" /\ flow.ui = "method"
    /\ op.name = "complete"
    /\ Count("camera:waypoint", fired) = 1
    /\ Count("uiMethod", fired) = 1


\* The share of sub-segment i (length / chain length, the chain length taken
\* as 1 when it is 0) times the budget, as a fraction.
Share(lengths, i, budget) ==
    <<budget * lengths[i], IF Sum(lengths) = 0 THEN 1 ELSE Sum(lengths)>>

\* k is x rounded to the nearest integer, halves upwards.
IsRounded(k, x) == 2 * k * x[2] - x[2] <= 2 * x[1] /\ 2 * x[1] < 2 * k * x[2] + x[2]

\* steps is max(4, round(share)) for every sub-segment.
StepsAsShares(steps, lengths, budget) ==
    /\ DOMAIN steps = DOMAIN lengths
    /\ \A i \in DOMAIN lengths :
          /\ steps[i] >= 4
          /\ steps[i] > 4 => IsRounded(steps[i], Share(lengths, i, budget))
          /\ steps[i] = 4 => 2 * Share(lengths, i, budget)[1]
                                < 9 * Share(lengths, i, budget)[2]

Milestones(L) == [k \in 1..L |-> 10 * (k - 1)]

\* C32: for every segment returned by _buildSegments, prevPoint is the
\* position at index start - 1 when start > 0 and absent otherwise, and
\* nextPoint is the position at index end + 1 when end + 1 < L and absent
\* otherwise; the first segment has no prevPoint and the last no nextPoint.
C32_Neighbours ==
    (calc.fn = "buildSegments" /\ calc.done) =>
        LET segs == calc.out
            P == Milestones(calc.length)
        IN /\ \A i \in DOMAIN segs :
                 /\ PointAt(P, segs[i].prevPoint)
                       = IF segs[i].start > 0
                         THEN [has |-> TRUE, x |-> 10 * (segs[i].start - 1)]
                         ELSE NoPoint
                 /\ PointAt(P, segs[i].nextPoint)
                       = IF segs[i].end + 1 < calc.length
                         THEN [has |-> TRUE, x |-> 10 * (segs[i].end + 1)]
                         ELSE NoPoint
           /\ segs # <<>> => /\ ~PointAt(P, segs[1].prevPoint).has
                             /\ ~PointAt(P, segs[Len(segs)].nextPoint).has

\* C32 witness: 4 positions with a pause at the second give two segments;
\* the first has the third waypoint as nextPoint and no prevPoint, the second
\* the first waypoint as prevPoint and no nextPoint.
C32_Witness ==
    /\ calc.fn = "buildSegments" /\ calc.done
    /\ calc.length = 4 /\ Len(calc.out) = 2
    /\ calc.out[1].end = 1
    /\ calc.out[1].prevPoint = -1 /\ calc.out[1].nextPoint = 2
    /\ calc.out[2].prevPoint = 0 /\ calc.out[2].nextPoint = -1

RunCompleted ==
    /\ ~loop /\ pc = "idle" /\ ~_running
    /\ \/ /\ script = "CameraMover" /\ op.name = "return"
          /\ Count("camera:path:complete", fired) = 1
       \/ /\ script \in PathScripts /\ op.name = "complete"

\* C34: after a non-looping run has completed naturally the running flag is
\* false and the task list is empty, as after stop.
C34_IdleAfterCompletion == RunCompleted => (~_running /\ _tweens = <<>>)

\* C35: in CameraWaypointPath with autoStart and a data source (URL or
\* asset), once the data has been applied startPath has been called exactly
\* once, whether the data came after initialize returned or the asset's
\* resource was there and was applied during initialize.
C35_AutoStartOnce ==
    (script \in PathScripts /\ autoStart /\ boot.phase = "applied"
        /\ boot.source \in {"url", "asset", "assetReady"}) => boot.starts = 1

\* C36: in CameraMover, between handlers, a true running flag comes with at
\* least one task of the list that is pending or active.
C36_RunningHasLiveTask ==
    (script = "CameraMover" /\ pc = "idle" /\ _running) =>
        \E i \in DOMAIN _tweens : _tweens[i].st \in {"pending", "active"}

\* C37: consecutive tasks of one chain are position-continuous: the first
\* sample of the task CameraMover.start builds for segment k + 1 of a
\* WaypointPathBuilder path is the last sample of the task of segment k, and
\* the from-position of hop k + 1 of startFromWaypoints is the to-position
\* of hop k.
C37_PositionContinuous ==
    /\ (calc.fn = "playBuilt" /\ calc.done) =>
          \A k \in 1..(Len(calc.out.built) - 1) :
              calc.out.built[k + 1].samples[1] = EndPosition(calc.out.built[k].samples)
    /\ (calc.fn = "startFromWaypoints" /\ calc.done) =>
          \A k \in 1..(Len(calc.out) - 1) : calc.out[k + 1].from = calc.out[k].to

\* The rows of a payload that give a position, in order: the i-th is the
\* source row of positions[i].
PositionRows(rows) == SelectSeq(rows, LAMBDA r : ~r.null /\ r.pos # 0)

\* C38: after _parseJson the arrays are index-aligned: for every i the
\* pause pauses[i] and the rotation rotations[i], when there is one, come from
\* the row positions[i] comes from, also when rows lack a rotation or a
\* position.
C38_JsonAligned ==
    (calc.fn = "parseJson" /\ calc.done /\ ~calc.out.null) =>
        LET src == PositionRows(calc.json.rows)
        IN \A i \in DOMAIN calc.out.positions :
              /\ calc.out.positions[i] = ToVec3(src[i].pos)
              /\ i \in DOMAIN calc.out.pauses => calc.out.pauses[i] = src[i].wait
              /\ i \in DOMAIN calc.out.rotations =>
                    /\ src[i].rot # 0
                    /\ calc.out.rotations[i] = ToVec3(src[i].rot)

\* A step of the pipeline keeps getData() the payload of the last
\* 'waypoints:loaded': a step that fires the event is the end of a load
\* whose payload has a position, and retains that payload; a step that does
\* not fire it leaves the retained data alone.
LoadedStep ==
    IF Count("waypoints:loaded", fired') > 0
    THEN /\ Count("waypoints:loaded", fired') = 1
         /\ op'.name = "deliver" /\ op'.arg.kind = "parsed"
         /\ op'.arg.payload # NoData /\ op'.arg.payload.positions >= 1
         /\ flow'._data = op'.arg.payload
    ELSE flow'._data = flow._data

\* C39: every 'waypoints:loaded' WaypointFetcher fires carries a payload
\* with at least one position, and after any sequence of loads getData()
\* returns the payload of the last 'waypoints:loaded' fired, null if none
\* has been.
C39_DataIsLastLoaded ==
    /\ (flow.attached => flow._data = NoData)
    /\ [][flow.attached => LoadedStep]_vars

\* C39 witness: the second of two loads has ended with 'waypoints:loaded'
\* and its payload is the one retained.
C39_Witness ==
    /\ flow.attached
    /\ flow.loads = 2 /\ flow.requests = 0
    /\ op.name = "deliver" /\ Count("waypoints:loaded", fired) = 1
    /\ flow._data = op.arg.payload /\ flow._data.positions = 2
====
